---- MODULE Spec2Model ----
(***************************************************************************)
(* Evidence evaluation engine of the proof-card application.               *)
(*                                                                         *)
(*   - the server-side rules and the generate_proof_card handler of the    *)
(*     edge function (supabase/functions/run-python/index.ts, second       *)
(*     module of the file, lines 94-466);                                  *)
(*   - the client-side rule module (src/lib/proofCardRules.ts);            *)
(*   - the GenerateProofCard dialog that consumes the evaluation;          *)
(*   - the ActivityLogger dialog that submits activities;                  *)
(*   - the signal extractors of the coding and writing learning spaces     *)
(*     (src/lib/signals/writingSignalExtractor.ts holds both).             *)
(*                                                                         *)
(* JavaScript numbers are IEEE-754 doubles.  The confidence score is the   *)
(* only place where fractions occur; it is modelled bit-exactly: a double  *)
(* x with 0 <= x < 4 that is a multiple of 2^-57 is the record             *)
(* [hi, lo] with x = (hi * 2^28 + lo) * 2^-57 and 0 <= lo < 2^28.          *)
(***************************************************************************)
EXTENDS Integers, Sequences, FiniteSets, TLC

VARIABLES
    content,     \* body.content of the request being served
    apiKey,      \* Deno.env.get("LOVABLE_API_KEY") is set
    pc,          \* position of the serve handler
    fetchCalls,  \* number of calls made to the AI gateway
    reply,       \* how the call to the AI gateway settled
    response,    \* the Response the handler returned
    fin,         \* input of a pure-function application
    fout,        \* result of a pure-function application
    generator,   \* state of the GenerateProofCard component
    logger,      \* state of the ActivityLogger component
    extractor,   \* a learning-space session and its signal snapshot
    db,          \* rows of the activities and proof_cards tables
    evaluations, \* what the evaluations of a skill have returned so far
    sharing      \* toggleShare calls, the tokens issued, the Verify page

\* the state of the client components
clientVars == <<generator, logger, extractor>>

\* the tables, and the record of the evaluations made on them
tableVars == <<db, evaluations, sharing>>

\* the state of the edge function and of the rule applications, and the
\* tables behind them
serverVars == <<content, apiKey, pc, fetchCalls, reply, response, fin, fout,
                tableVars>>

vars == <<content, apiKey, pc, fetchCalls, reply, response, fin, fout,
          generator, logger, extractor, db, evaluations, sharing>>

(***************************************************************************)
(* Bounds                                                                  *)
(***************************************************************************)
MaxActs == 3
MaxCount == 4

\* createProofCard calls awaited at once
MaxSaving == 2

\* addActivity calls awaited at once
MaxAdding == 2

\* runs, revisions, edits and auto-saves recorded in one session
MaxEvents == 3

\* activities logged for one skill, and runs of equal rows among them
MaxLogged == 21

MaxRuns == 3

\* observed sessions among the activities logged for the skill
MaxObserved == 1

\* share tokens generated for one card, and toggleShare calls in flight
MaxTokens == 3

MaxPending == 2

\* part_005 321: slice(0, 20)
WindowSize == 20

(***************************************************************************)
(* IEEE-754 double arithmetic on [hi, lo] pairs (units of 2^-57)           *)
(***************************************************************************)
Limb == 16384 * 16384

F(h, l) == [hi |-> h, lo |-> l]

FZero == F(0, 0)

\* unit in the last place of a double, in units of 2^-57, by binade
Ulp(hi) ==
    IF hi >= 1073741824 THEN 64
    ELSE IF hi >= 536870912 THEN 32
    ELSE IF hi >= 268435456 THEN 16
    ELSE IF hi >= 134217728 THEN 8
    ELSE IF hi >= 67108864 THEN 4
    ELSE IF hi >= 33554432 THEN 2
    ELSE 1

\* round the exact value (hi*2^28 + lo + num/den) * 2^-57, 0 <= num < den,
\* to the nearest double, ties to even
FRound(hi, lo, num, den) ==
    LET U == Ulp(hi)
        r == lo % U
        base == lo - r
        twice == 2 * (r * den + num)
        up == \/ twice > U * den
              \/ twice = U * den /\ (base \div U) % 2 = 1
        lo2 == IF up THEN base + U ELSE base
    IN  IF lo2 >= Limb THEN F(hi + 1, lo2 - Limb) ELSE F(hi, lo2)

\* a + b on doubles
FAdd(a, b) ==
    LET s == a.lo + b.lo
    IN  FRound(a.hi + b.hi + (s \div Limb), s % Limb, 0, 1)

\* n / d on doubles, for integers 0 <= n, 0 < d <= 20, n / d < 4
FDiv(n, d) ==
    LET t2 == n * 524288
        q2 == t2 \div d
        t1 == (t2 % d) * 524288
        q1 == t1 \div d
        t0 == (t1 % d) * 524288
        q0 == t0 \div d
    IN  FRound(q2 * 1024 + (q1 \div 512), (q1 % 512) * 524288 + q0, t0 % d, d)

FLess(a, b) == a.hi < b.hi \/ (a.hi = b.hi /\ a.lo < b.lo)

FLeq(a, b) == ~FLess(b, a)

\* Math.min
FMin(a, b) == IF FLess(b, a) THEN b ELSE a

\* the double literals of the source
D_0_05 == FDiv(1, 20)
D_0_1 == FDiv(1, 10)
D_0_15 == FDiv(3, 20)
D_0_2 == FDiv(1, 5)
D_0_3 == FDiv(3, 10)
D_0_45 == FDiv(9, 20)
D_0_6 == FDiv(3, 5)

(***************************************************************************)
(* JavaScript values of the request                                        *)
(***************************************************************************)
\* a JSON value read from a field: t is its type ("undefined" for an absent
\* field), s the tokens of a string; the token "T" is the character 'T'
JUndef == [t |-> "undefined", s |-> <<>>]

JNull == [t |-> "null", s |-> <<>>]

JNum == [t |-> "number", s |-> <<>>]

JStr(toks) == [t |-> "string", s |-> toks]

\* learning_signals: null, or an object whose error_correction_cycles is a
\* number (ecc >= 0) or absent (ecc = -1, the writing-session signals)
NoSignals == [present |-> FALSE, ecc |-> -1]

Signals(n) == [present |-> TRUE, ecc |-> n]

\* the part of a string before its first 'T'
RECURSIVE BeforeT(_)
BeforeT(toks) ==
    IF toks = <<>> \/ Head(toks) = "T" THEN <<>>
    ELSE <<Head(toks)>> \o BeforeT(Tail(toks))

\* v?.split('T')[0]: undefined for undefined and null, the part before the
\* first 'T' for a string; a TypeError for any other value (SplitThrows)
SplitT0(v) == IF v.t = "string" THEN JStr(BeforeT(v.s)) ELSE JUndef

SplitThrows(v) == v.t \notin {"undefined", "null", "string"}

\* JavaScript truthiness of the values above
Truthy(v) ==
    CASE v.t = "string" -> v.s # <<>>
      [] v.t = "number" -> TRUE
      [] OTHER -> FALSE

\* a || b
JOr(a, b) == IF Truthy(a) THEN a ELSE b

(***************************************************************************)
(* Server-side rules: supabase/functions/run-python/index.ts               *)
(***************************************************************************)
MIN_UNIQUE_DAYS == 3

MIN_SESSIONS == 3

MIN_OBSERVED_SESSIONS == 1

\* isObserved looking at the evidence_source tag only
isObserved_tagOnly(a) == a.evidence_source = "observed_in_proof"

isObserved(a) ==
    a.evidence_source = "observed_in_proof" \/ a.learning_signals.present

\* activity.learning_signals?.error_correction_cycles > 0
hasCycles(a) == a.learning_signals.present /\ a.learning_signals.ecc > 0

\* the loop dereferences activity.date with ?.split: a TypeError on a date
\* that is neither nullish nor a string
MetricsThrow(activities) ==
    \E i \in 1..Len(activities) : SplitThrows(activities[i].date)

calculateEvidenceMetrics(activities) ==
    LET idx == 1..Len(activities)
        uniqueDates == {SplitT0(activities[i].date).s :
                          i \in {j \in idx : Truthy(SplitT0(activities[j].date))}}
        activityTypes == {activities[i].type :
                            i \in {j \in idx : activities[j].type # ""}}
        observed == {i \in idx : isObserved(activities[i])}
    IN  [uniqueDays |-> Cardinality(uniqueDates),
         sessionCount |-> Len(activities),
         hasObservedEvidence |-> observed # {},
         observedSessionCount |-> Cardinality(observed),
         hasErrorCorrectionCycles |-> \E i \in idx : hasCycles(activities[i]),
         activityTypes |-> activityTypes]

\* evaluateUnlockRequirements reading sessionCount for observedSessionCount
\* in the growth rule
evaluateUnlockRequirements_growthFromSessions(metrics) ==
    [multiple_days |-> metrics.uniqueDays >= MIN_UNIQUE_DAYS,
     multiple_sessions |-> metrics.sessionCount >= MIN_SESSIONS,
     observed_evidence |-> metrics.hasObservedEvidence,
     growth_signal |-> metrics.hasErrorCorrectionCycles
                       \/ metrics.sessionCount >= 2,
     consistency |-> Cardinality(metrics.activityTypes) >= 1
                     /\ metrics.sessionCount >= MIN_SESSIONS]

\* evaluateUnlockRequirements with > for >= in the days rule
evaluateUnlockRequirements_strictDays(metrics) ==
    [multiple_days |-> metrics.uniqueDays > MIN_UNIQUE_DAYS,
     multiple_sessions |-> metrics.sessionCount >= MIN_SESSIONS,
     observed_evidence |-> metrics.hasObservedEvidence,
     growth_signal |-> metrics.hasErrorCorrectionCycles
                       \/ metrics.observedSessionCount >= 2,
     consistency |-> Cardinality(metrics.activityTypes) >= 1
                     /\ metrics.sessionCount >= MIN_SESSIONS]

evaluateUnlockRequirements(metrics) ==
    [multiple_days |-> metrics.uniqueDays >= MIN_UNIQUE_DAYS,
     multiple_sessions |-> metrics.sessionCount >= MIN_SESSIONS,
     observed_evidence |-> metrics.hasObservedEvidence,
     growth_signal |-> metrics.hasErrorCorrectionCycles
                       \/ metrics.observedSessionCount >= 2,
     consistency |-> Cardinality(metrics.activityTypes) >= 1
                     /\ metrics.sessionCount >= MIN_SESSIONS]

\* shouldUnlock with its last conjunct forgotten
shouldUnlock_dropsConsistency(requirements) ==
    /\ requirements.multiple_days
    /\ requirements.multiple_sessions
    /\ requirements.observed_evidence
    /\ requirements.growth_signal

shouldUnlock(requirements) ==
    /\ requirements.multiple_days
    /\ requirements.multiple_sessions
    /\ requirements.observed_evidence
    /\ requirements.growth_signal
    /\ requirements.consistency

\* a message is its kind with the interpolated value and threshold
Msg(kind, value, threshold) ==
    [kind |-> kind, value |-> value, threshold |-> threshold]

\* getMissingRequirements pushing the consistency message before the growth
\* signal one
getMissingRequirements_consistencyFirst(requirements, metrics) ==
    (IF ~requirements.multiple_days
       THEN <<Msg("days", metrics.uniqueDays, MIN_UNIQUE_DAYS)>> ELSE <<>>)
    \o (IF ~requirements.multiple_sessions
          THEN <<Msg("sessions", metrics.sessionCount, MIN_SESSIONS)>> ELSE <<>>)
    \o (IF ~requirements.observed_evidence
          THEN <<Msg("observed_evidence", 0, 0)>> ELSE <<>>)
    \o (IF ~requirements.consistency
          THEN <<Msg("consistency", 0, 0)>> ELSE <<>>)
    \o (IF ~requirements.growth_signal
          THEN <<Msg("growth_signal", 0, 0)>> ELSE <<>>)

getMissingRequirements(requirements, metrics) ==
    (IF ~requirements.multiple_days
       THEN <<Msg("days", metrics.uniqueDays, MIN_UNIQUE_DAYS)>> ELSE <<>>)
    \o (IF ~requirements.multiple_sessions
          THEN <<Msg("sessions", metrics.sessionCount, MIN_SESSIONS)>> ELSE <<>>)
    \o (IF ~requirements.observed_evidence
          THEN <<Msg("observed_evidence", 0, 0)>> ELSE <<>>)
    \o (IF ~requirements.growth_signal
          THEN <<Msg("growth_signal", 0, 0)>> ELSE <<>>)
    \o (IF ~requirements.consistency
          THEN <<Msg("consistency", 0, 0)>> ELSE <<>>)

\* calculateConfidenceScore without the error-correction term
calculateConfidenceScore_noErrorTerm(metrics) ==
    LET s0 == D_0_2
        s1 == FAdd(s0, FMin(FDiv(metrics.uniqueDays, 10), D_0_15))
        s2 == FAdd(s1, FMin(FDiv(metrics.sessionCount, 20), D_0_1))
        s3 == FAdd(s2, FMin(FDiv(metrics.observedSessionCount, 5), D_0_1))
    IN  FMin(s3, D_0_6)

\* calculateConfidenceScore with every Math.min forgotten
calculateConfidenceScore_unclamped(metrics) ==
    LET s0 == D_0_2
        s1 == FAdd(s0, FDiv(metrics.uniqueDays, 10))
        s2 == FAdd(s1, FDiv(metrics.sessionCount, 20))
        s3 == FAdd(s2, FDiv(metrics.observedSessionCount, 5))
    IN  IF metrics.hasErrorCorrectionCycles THEN FAdd(s3, D_0_05) ELSE s3

calculateConfidenceScore(metrics) ==
    LET s0 == D_0_2
        s1 == FAdd(s0, FMin(FDiv(metrics.uniqueDays, 10), D_0_15))
        s2 == FAdd(s1, FMin(FDiv(metrics.sessionCount, 20), D_0_1))
        s3 == FAdd(s2, FMin(FDiv(metrics.observedSessionCount, 5), D_0_1))
        s4 == IF metrics.hasErrorCorrectionCycles THEN FAdd(s3, D_0_05) ELSE s3
    IN  FMin(s4, D_0_6)

\* getConfidenceLevel with <= for < at both boundaries
getConfidenceLevel_inclusive(score) ==
    IF FLeq(score, D_0_3) THEN "emerging"
    ELSE IF FLeq(score, D_0_45) THEN "developing"
    ELSE "early_evidence"

getConfidenceLevel(score) ==
    IF FLess(score, D_0_3) THEN "emerging"
    ELSE IF FLess(score, D_0_45) THEN "developing"
    ELSE "early_evidence"

(***************************************************************************)
(* Client-side rules: src/lib/proofCardRules.ts                            *)
(***************************************************************************)
RULES_MIN_UNIQUE_DAYS == 3

RULES_MIN_SESSIONS == 3

\* the client reading only the date field, which its rows do not have
rules_dateStr_dateOnly(a) == SplitT0(a.date)

\* activity.created_at?.split('T')[0] || activity.date?.split('T')[0]
rules_dateStr(a) == JOr(SplitT0(a.created_at), SplitT0(a.date))

rules_MetricsThrow(activities) ==
    \E i \in 1..Len(activities) :
        \/ SplitThrows(activities[i].created_at)
        \/ ~Truthy(SplitT0(activities[i].created_at))
           /\ SplitThrows(activities[i].date)

rules_calculateEvidenceMetrics(activities) ==
    LET idx == 1..Len(activities)
        uniqueDates == {rules_dateStr(activities[i]).s :
                          i \in {j \in idx : Truthy(rules_dateStr(activities[j]))}}
        activityTypes == {activities[i].type :
                            i \in {j \in idx : activities[j].type # ""}}
        observed == {i \in idx :
                        \/ activities[i].evidence_source = "observed_in_proof"
                        \/ activities[i].learning_signals.present}
        total[i \in 0..Len(activities)] ==
            IF i = 0 THEN 0 ELSE total[i - 1] + activities[i].duration_minutes
    IN  [uniqueDays |-> Cardinality(uniqueDates),
         sessionCount |-> Len(activities),
         hasObservedEvidence |-> observed # {},
         observedSessionCount |-> Cardinality(observed),
         totalDuration |-> total[Len(activities)],
         hasErrorCorrectionCycles |->
             \E i \in idx : /\ activities[i].learning_signals.present
                            /\ activities[i].learning_signals.ecc > 0,
         activityTypes |-> activityTypes]

rules_evaluateUnlockRequirements(metrics) ==
    [multiple_days |-> metrics.uniqueDays >= RULES_MIN_UNIQUE_DAYS,
     multiple_sessions |-> metrics.sessionCount >= RULES_MIN_SESSIONS,
     observed_evidence |-> metrics.hasObservedEvidence,
     growth_signal |-> metrics.hasErrorCorrectionCycles
                       \/ metrics.observedSessionCount >= 2,
     consistency |-> Cardinality(metrics.activityTypes) >= 1
                     /\ metrics.sessionCount >= RULES_MIN_SESSIONS]

rules_shouldUnlock(requirements) ==
    /\ requirements.multiple_days
    /\ requirements.multiple_sessions
    /\ requirements.observed_evidence
    /\ requirements.growth_signal
    /\ requirements.consistency

rules_getMissingRequirements(requirements, metrics) ==
    (IF ~requirements.multiple_days
       THEN <<Msg("days", metrics.uniqueDays, RULES_MIN_UNIQUE_DAYS)>> ELSE <<>>)
    \o (IF ~requirements.multiple_sessions
          THEN <<Msg("sessions", metrics.sessionCount, RULES_MIN_SESSIONS)>>
          ELSE <<>>)
    \o (IF ~requirements.observed_evidence
          THEN <<Msg("observed_evidence", 0, 0)>> ELSE <<>>)
    \o (IF ~requirements.growth_signal
          THEN <<Msg("growth_signal", 0, 0)>> ELSE <<>>)
    \o (IF ~requirements.consistency
          THEN <<Msg("consistency", 0, 0)>> ELSE <<>>)

\* rules_calculateConfidenceScore adding the days term only while it is
\* within its cap, instead of clamping it
rules_calculateConfidenceScore_dropsAboveCap(metrics) ==
    LET s0 == D_0_2
        days == FDiv(metrics.uniqueDays, 10)
        s1 == IF FLeq(days, D_0_15) THEN FAdd(s0, days) ELSE s0
        s2 == FAdd(s1, FMin(FDiv(metrics.sessionCount, 20), D_0_1))
        s3 == FAdd(s2, FMin(FDiv(metrics.observedSessionCount, 5), D_0_1))
        s4 == IF metrics.hasErrorCorrectionCycles THEN FAdd(s3, D_0_05) ELSE s3
    IN  FMin(s4, D_0_6)

rules_calculateConfidenceScore(metrics) ==
    LET s0 == D_0_2
        s1 == FAdd(s0, FMin(FDiv(metrics.uniqueDays, 10), D_0_15))
        s2 == FAdd(s1, FMin(FDiv(metrics.sessionCount, 20), D_0_1))
        s3 == FAdd(s2, FMin(FDiv(metrics.observedSessionCount, 5), D_0_1))
        s4 == IF metrics.hasErrorCorrectionCycles THEN FAdd(s3, D_0_05) ELSE s3
    IN  FMin(s4, D_0_6)

rules_getConfidenceLevel(score) ==
    IF FLess(score, D_0_3) THEN "emerging"
    ELSE IF FLess(score, D_0_45) THEN "developing"
    ELSE "early_evidence"

(***************************************************************************)
(* Activities                                                              *)
(***************************************************************************)
\* a row of the activities table as the client holds it (useActivities.tsx,
\* interface Activity): created_at is set, there is no date field; type ""
\* is an absent type, duration_minutes 0 a null duration
Act(created, type, source, signals, minutes) ==
    [created_at |-> created, date |-> JUndef, type |-> type,
     evidence_source |-> source, learning_signals |-> signals,
     duration_minutes |-> minutes]

\* the rows the inputs are drawn from: three calendar days, two sessions on
\* one day, the tag without signals, signals without the tag, coding signals
\* with and without a correction cycle, writing signals, a missing
\* timestamp, a string that is no date, a string with nothing before its
\* 'T', a timestamp that is not a string
ActivityPool ==
    { Act(JStr(<<"D1", "T", "t1">>), "code", "submitted", NoSignals, 30),
      Act(JStr(<<"D2", "T", "t1">>), "code", "observed_in_proof", Signals(1), 20),
      Act(JStr(<<"D3", "T", "t1">>), "document", "submitted", NoSignals, 0),
      Act(JStr(<<"D1", "T", "t2">>), "document", "observed_in_proof", NoSignals, 10),
      Act(JUndef, "", "submitted", Signals(0), 0),
      Act(JStr(<<"x">>), "manual", "submitted", Signals(-1), 5),
      Act(JStr(<<"T", "t1">>), "code", "submitted", NoSignals, 0),
      Act(JNum, "code", "submitted", NoSignals, 0) }

SeqsUpTo(S, n) == UNION {[1..k -> S] : k \in 0..n}

\* the element of the request's activities built from a row
\* (GenerateProofCard.generateCard)
ToRequest(a) ==
    [date |-> a.created_at, type |-> a.type,
     evidence_source |-> a.evidence_source,
     learning_signals |-> a.learning_signals]

ToRequestList(rows) == [i \in 1..Len(rows) |-> ToRequest(rows[i])]

(***************************************************************************)
(* The collaborator's reply to the one fetch of generate_proof_card        *)
(***************************************************************************)
\* a field of the parsed reply: absent, a string, or a number
TUndef == [t |-> "undefined", text |-> ""]

TStr(x) == [t |-> "string", text |-> x]

TNum == [t |-> "number", text |-> ""]

TTruthy(v) == (v.t = "string" /\ v.text # "") \/ v.t = "number"

\* kind   "throw": fetch rejects; "http": a Response arrives
\* ok     response.ok
\* body   what response.json() gives: "notjson" (it rejects), "null",
\*        "nochoices" (choices?.[0]?.message?.content is undefined),
\*        "content" (a content string)
\* parsed what JSON.parse(content) gives: "syntaxerror", "null",
\*        "primitive" (a number, a string, a boolean), "object"
\* evidence_summary, limitations: fields of the parsed object
\* trends: observed_growth_trends, a list or absent (has_trends)
Reply(kind, ok, body, parsed, summary, hasTrends, trends, limitations) ==
    [kind |-> kind, ok |-> ok, body |-> body, parsed |-> parsed,
     evidence_summary |-> summary, has_trends |-> hasTrends,
     trends |-> trends, limitations |-> limitations]

NoReply == Reply("none", FALSE, "", "", TUndef, FALSE, <<>>, TUndef)

Replies ==
    { Reply("throw", FALSE, "", "", TUndef, FALSE, <<>>, TUndef),
      Reply("http", FALSE, "", "", TUndef, FALSE, <<>>, TUndef),
      Reply("http", TRUE, "notjson", "", TUndef, FALSE, <<>>, TUndef),
      Reply("http", TRUE, "null", "", TUndef, FALSE, <<>>, TUndef),
      Reply("http", TRUE, "nochoices", "", TUndef, FALSE, <<>>, TUndef),
      Reply("http", TRUE, "content", "syntaxerror", TUndef, FALSE, <<>>, TUndef),
      Reply("http", TRUE, "content", "null", TUndef, FALSE, <<>>, TUndef),
      Reply("http", TRUE, "content", "primitive", TUndef, FALSE, <<>>, TUndef),
      Reply("http", TRUE, "content", "object", TUndef, FALSE, <<>>, TUndef),
      Reply("http", TRUE, "content", "object", TStr("AI summary"), TRUE,
            <<"AI trend">>, TStr("AI limitations")),
      Reply("http", TRUE, "content", "object", TStr("AI summary"), TRUE,
            <<>>, TUndef),
      Reply("http", TRUE, "content", "object", TStr(""), TRUE,
            <<"AI trend">>, TStr("AI limitations")),
      Reply("http", TRUE, "content", "object", TNum, FALSE,
            <<>>, TStr("AI limitations")),
      Reply("http", TRUE, "content", "object", TUndef, TRUE,
            <<"AI trend">>, TUndef) }

(***************************************************************************)
(* Response payloads of the edge function                                  *)
(***************************************************************************)
NoRequirements ==
    [multiple_days |-> FALSE, multiple_sessions |-> FALSE,
     observed_evidence |-> FALSE, growth_signal |-> FALSE,
     consistency |-> FALSE]

\* a template literal with its interpolated numbers; a value taken from the
\* reply keeps its type and text
Text(t, text, n, d) == [t |-> t, text |-> text, n |-> n, d |-> d]

NoText == Text("undefined", "", 0, 0)

FromReply(v) == Text(v.t, v.text, 0, 0)

TextNonEmpty(v) == v.t = "string" /\ v.text # ""

\* keys: the properties the JSON payload carries; the other fields of the
\* record are placeholders
Payload(http, keys) ==
    [http |-> http, keys |-> keys, status |-> "",
     requirements_met |-> NoRequirements, missing_requirements |-> <<>>,
     current_progress |-> [days_count |-> 0, sessions_count |-> 0,
                           has_observed_evidence |-> FALSE],
     evidence_summary |-> NoText, growth_trend |-> "",
     confidence_score |-> FZero, confidence_level |-> "",
     explanation |-> [text |-> "", level |-> "", observed |-> 0, days |-> 0,
                      tail |-> TStr("")],
     time_span |-> [kind |-> "", from |-> <<>>, to |-> <<>>],
     session_count |-> 0, observed_growth_trends |-> <<>>,
     limitations |-> NoText, error |-> ""]

NoResponse == Payload(0, {})

\* the outer catch: status 500, { error: message }
ErrorResponse(message) == [Payload(500, {"error"}) EXCEPT !.error = message]

LockedKeys ==
    {"status", "requirements_met", "missing_requirements", "current_progress",
     "what_would_unlock", "encouragement"}

UnlockedKeys ==
    {"status", "requirements_met", "evidence_summary", "growth_trend",
     "confidence_score", "confidence_level", "explanation", "time_span",
     "session_count", "observed_growth_trends", "limitations"}

\* lockedResponse with the scorer's result added to the payload
lockedResponse_withScore(requirements, metrics) ==
    [Payload(200, LockedKeys \cup {"confidence_score", "confidence_level"}) EXCEPT
        !.status = "locked",
        !.requirements_met = requirements,
        !.missing_requirements = getMissingRequirements(requirements, metrics),
        !.current_progress = [days_count |-> metrics.uniqueDays,
                              sessions_count |-> metrics.sessionCount,
                              has_observed_evidence |-> metrics.hasObservedEvidence],
        !.confidence_score = calculateConfidenceScore(metrics),
        !.confidence_level = getConfidenceLevel(calculateConfidenceScore(metrics))]

\* index.ts 247-265
lockedResponse(requirements, metrics) ==
    [Payload(200, LockedKeys) EXCEPT
        !.status = "locked",
        !.requirements_met = requirements,
        !.missing_requirements = getMissingRequirements(requirements, metrics),
        !.current_progress = [days_count |-> metrics.uniqueDays,
                              sessions_count |-> metrics.sessionCount,
                              has_observed_evidence |-> metrics.hasObservedEvidence]]

\* JavaScript's default sort order on the date strings of the model
TokRank(tok) ==
    CASE tok = "D1" -> 1
      [] tok = "D2" -> 2
      [] tok = "D3" -> 3
      [] tok = "T" -> 4
      [] tok = "t1" -> 5
      [] tok = "t2" -> 6
      [] OTHER -> 7

RECURSIVE StrLeq(_, _)
StrLeq(a, b) ==
    IF a = <<>> THEN TRUE
    ELSE IF b = <<>> THEN FALSE
    ELSE IF Head(a) = Head(b) THEN StrLeq(Tail(a), Tail(b))
    ELSE TokRank(Head(a)) < TokRank(Head(b))

\* dates = activities.map(a => a.date?.split('T')[0]).filter(Boolean).sort()
\* timeSpan = dates.length > 1 ? `${dates[0]} to ${dates[last]}`
\*                             : dates[0] || "Recent"
timeSpan(activities) ==
    LET kept == {i \in 1..Len(activities) : Truthy(SplitT0(activities[i].date))}
        dates == {SplitT0(activities[i].date).s : i \in kept}
        first == CHOOSE x \in dates : \A y \in dates : StrLeq(x, y)
        last == CHOOSE x \in dates : \A y \in dates : StrLeq(y, x)
    IN  IF Cardinality(kept) > 1 THEN [kind |-> "range", from |-> first, to |-> last]
        ELSE IF Cardinality(kept) = 1 THEN [kind |-> "single", from |-> first, to |-> first]
        ELSE [kind |-> "recent", from |-> <<>>, to |-> <<>>]

\* the deterministic fields both unlocked payloads share
unlockedBase(requirements, metrics, activities) ==
    [Payload(200, UnlockedKeys) EXCEPT
        !.status = "unlocked",
        !.requirements_met = requirements,
        !.growth_trend = IF metrics.hasErrorCorrectionCycles
                         THEN "improving" ELSE "stable",
        !.confidence_score = calculateConfidenceScore(metrics),
        !.confidence_level = getConfidenceLevel(calculateConfidenceScore(metrics)),
        !.time_span = timeSpan(activities),
        !.session_count = metrics.sessionCount]

\* index.ts 316-334: the reply is not ok
defaultExplanationResponse(requirements, metrics, activities) ==
    [unlockedBase(requirements, metrics, activities) EXCEPT
        !.evidence_summary =
            Text("string",
                 "Observed {sessionCount} learning sessions for {skill_name} across {uniqueDays} days with process evidence.",
                 metrics.sessionCount, metrics.uniqueDays),
        !.explanation =
            [text |-> "Evidence is {confidenceLevel}. Based on {observedSessionCount} observed sessions with process signals.",
             level |-> getConfidenceLevel(calculateConfidenceScore(metrics)),
             observed |-> metrics.observedSessionCount, days |-> 0,
             tail |-> TStr("")],
        !.observed_growth_trends =
            <<"Learning process observed", "Consistent practice detected">>,
        !.limitations =
            Text("string",
                 "Early evidence. Confidence will increase with continued practice over time.",
                 0, 0)]

\* index.ts 346-359: aiParsed merged into the payload; aiParsed is the parsed
\* object, or {} (all three fields undefined)
unlockedResponse(requirements, metrics, activities, summary, hasTrends, trends, limitations) ==
    [unlockedBase(requirements, metrics, activities) EXCEPT
        !.evidence_summary =
            IF TTruthy(summary) THEN FromReply(summary)
            ELSE Text("string",
                      "Observed {sessionCount} learning sessions for {skill_name} across {uniqueDays} days.",
                      metrics.sessionCount, metrics.uniqueDays),
        !.explanation =
            [text |-> "Confidence is {confidenceLevel} based on {observedSessionCount} observed sessions across {uniqueDays} days. {limitations}",
             level |-> getConfidenceLevel(calculateConfidenceScore(metrics)),
             observed |-> metrics.observedSessionCount,
             days |-> metrics.uniqueDays,
             tail |-> IF TTruthy(limitations) THEN limitations ELSE TStr("")],
        !.observed_growth_trends =
            IF hasTrends THEN trends ELSE <<"Learning process observed">>,
        !.limitations =
            IF TTruthy(limitations) THEN FromReply(limitations)
            ELSE Text("string",
                      "Early evidence. Confidence will increase with continued practice.",
                      0, 0)]

(***************************************************************************)
(* The serve handler, type = "generate_proof_card"                         *)
(***************************************************************************)
\* content.activities || []
RequestActivities(c) == IF c.has_activities THEN c.activities ELSE <<>>

\* Serve with the collaborator called before the gate is consulted
Serve_callsBeforeGate ==
    /\ pc = "received"
    /\ LET activities == RequestActivities(content)
       IN  IF ~apiKey
             THEN /\ response' = ErrorResponse("LOVABLE_API_KEY is not configured")
                  /\ pc' = "done"
                  /\ UNCHANGED fetchCalls
           ELSE IF MetricsThrow(activities)
             THEN /\ response' = ErrorResponse("TypeError")
                  /\ pc' = "done"
                  /\ UNCHANGED fetchCalls
           ELSE /\ fetchCalls' = fetchCalls + 1
                /\ pc' = "awaitFetch"
                /\ UNCHANGED response
    /\ UNCHANGED <<content, apiKey, reply, fin, fout, clientVars, tableVars>>

\* index.ts 220-314: from the request to the Locked payload, to an error, or
\* to the call of the collaborator
Serve ==
    /\ pc = "received"
    /\ LET activities == RequestActivities(content)
           metrics == calculateEvidenceMetrics(activities)
           requirements == evaluateUnlockRequirements(metrics)
           canUnlock == shouldUnlock(requirements)
       IN  IF ~apiKey
             THEN /\ response' = ErrorResponse("LOVABLE_API_KEY is not configured")
                  /\ pc' = "done"
                  /\ UNCHANGED fetchCalls
           ELSE IF MetricsThrow(activities)
             THEN /\ response' = ErrorResponse("TypeError")
                  /\ pc' = "done"
                  /\ UNCHANGED fetchCalls
           ELSE IF ~canUnlock
             THEN /\ response' = lockedResponse(requirements, metrics)
                  /\ pc' = "done"
                  /\ UNCHANGED fetchCalls
           ELSE /\ fetchCalls' = fetchCalls + 1
                /\ pc' = "awaitFetch"
                /\ UNCHANGED response
    /\ UNCHANGED <<content, apiKey, reply, fin, fout, clientVars, tableVars>>

\* index.ts 316-364 and the outer catch 459-465: what the handler returns
\* once the fetch settles with r
AfterFetch(c, r) ==
    LET activities == RequestActivities(c)
        metrics == calculateEvidenceMetrics(activities)
        requirements == evaluateUnlockRequirements(metrics)
    IN  IF r.kind = "throw" THEN ErrorResponse("fetch failed")
        ELSE IF ~r.ok
          THEN defaultExplanationResponse(requirements, metrics, activities)
        ELSE IF r.body = "notjson" THEN ErrorResponse("SyntaxError")
        ELSE IF r.body = "null" THEN ErrorResponse("TypeError")
        ELSE IF r.body = "content" /\ r.parsed = "null"
          THEN ErrorResponse("TypeError")
        ELSE IF r.body = "content" /\ r.parsed = "object"
          THEN unlockedResponse(requirements, metrics, activities,
                                r.evidence_summary, r.has_trends, r.trends,
                                r.limitations)
        ELSE unlockedResponse(requirements, metrics, activities,
                              TUndef, FALSE, <<>>, TUndef)

FetchReturns(r) ==
    /\ pc = "awaitFetch"
    /\ reply' = r
    /\ response' = AfterFetch(content, r)
    /\ pc' = "done"
    /\ UNCHANGED <<content, apiKey, fetchCalls, fin, fout, clientVars, tableVars>>

NoInput ==
    [kind |-> "none", r |-> NoRequirements,
     m |-> [uniqueDays |-> 0, sessionCount |-> 0, hasObservedEvidence |-> FALSE,
            observedSessionCount |-> 0, totalDuration |-> 0,
            hasErrorCorrectionCycles |-> FALSE, activityTypes |-> {}],
     s |-> FZero, acts |-> <<>>]

Out(fn) ==
    [fn |-> fn, throws |-> FALSE, c_throws |-> FALSE,
     b |-> FALSE, c_b |-> FALSE,
     req |-> NoRequirements, c_req |-> NoRequirements,
     missing |-> <<>>, c_missing |-> <<>>,
     score |-> FZero, c_score |-> FZero,
     prev |-> FZero, c_prev |-> FZero,
     level |-> "", c_level |-> "",
     metrics |-> calculateEvidenceMetrics(<<>>),
     c_metrics |-> rules_calculateEvidenceMetrics(<<>>)]

NoOutput == Out("none")

Requests ==
    {[has_activities |-> TRUE, activities |-> ToRequestList(rows),
      skill_name |-> "Python"] : rows \in SeqsUpTo(ActivityPool, MaxActs)}
    \cup {[has_activities |-> FALSE, activities |-> <<>>, skill_name |-> "Python"]}

(***************************************************************************)
(* The client components as they are mounted                               *)
(***************************************************************************)
\* a value the edge function's caller may receive as data: null, or an
\* object; locked_fields says whether it has the requirements_met,
\* current_progress and missing_requirements a LockedResponse has
Result(status, summary, score, lockedFields) ==
    [null |-> FALSE, status |-> status, evidence_summary |-> summary,
     confidence_score |-> score, locked_fields |-> lockedFields]

\* confidence_score: typeof and the number, in hundredths
Score(t, hundredths) == [t |-> t, hundredths |-> hundredths]

NullResult == [Result("", TUndef, Score("undefined", 0), FALSE) EXCEPT !.null = TRUE]

\* useState(false), useState(skill || null), useState(false), useState(null);
\* inFlight: invocations of analyze-learning not yet settled; saving:
\* createProofCard calls not yet settled; created: the arguments
\* createProofCard was called with, and the result they were taken from;
\* requestedSkill: the skill_name in the body of the invocation not yet
\* settled; resultSkill: the skill_name of the invocation result came from;
\* savedForOther: some createProofCard call carried another skill than the
\* one its result was evaluated for
GeneratorMounted(skill) ==
    [open |-> FALSE, selectedSkill |-> skill, isGenerating |-> FALSE,
     result |-> NullResult, inFlight |-> 0, saving |-> 0, created |-> {},
     requestedSkill |-> "", resultSkill |-> "", savedForOther |-> FALSE]

\* ActivityLogger's useState hooks; signals: sessionData.signals
\* ("undefined", or the kind of session the snapshot came from); adding:
\* addActivity calls not yet settled; submitted: the activities addActivity
\* was called with
LoggerMounted ==
    [open |-> FALSE, type |-> "code", title |-> "", sessionMode |-> "none",
     signals |-> "undefined", evidenceSource |-> "submitted",
     adding |-> 0, submitted |-> {}]

\* Date.now(), in units of 500 ms: every interval is then a multiple of
\* half a second, so the divisions by 1000 and the sums are exact doubles
TimeValues == {0, 1, 3}

createInitialCodingState(now) ==
    [editCount |-> 0, runCount |-> 0, errorCount |-> 0, successfulRuns |-> 0,
     errorCorrectionCycles |-> 0, runTimestamps |-> <<>>,
     lastRunHadError |-> FALSE, sessionStartTime |-> now]

\* a text is known by its word count and its length, an html by its
\* numbers of <p> and of headings
createInitialWritingState(now) ==
    [revisionCount |-> 0, paragraphRewrites |-> 0, structuralChanges |-> 0,
     wordCountChanges |-> <<>>, revisionTimestamps |-> <<>>,
     autoSaveCount |-> 0, sessionStartTime |-> now,
     lastContent |-> [words |-> 0, length |-> 0],
     lastParagraphCount |-> 0, lastHeadingCount |-> 0]

\* number | null
Null == [null |-> TRUE, n |-> 0]

Num(n) == [null |-> FALSE, n |-> n]

\* no snapshot taken yet
NoCodingSignals ==
    [edit_count |-> 0, run_count |-> 0, error_count |-> 0,
     successful_runs |-> 0, error_correction_cycles |-> 0,
     time_between_runs_avg_seconds |-> Null,
     session_duration_seconds |-> 0, final_code_length |-> 0]

NoWritingSignals ==
    [revision_count |-> 0, paragraph_rewrites |-> 0, structural_changes |-> 0,
     word_count_changes |-> <<>>, time_between_revisions_avg_seconds |-> Null,
     session_duration_seconds |-> 0, final_word_count |-> 0,
     auto_save_count |-> 0]

\* a learning space: the kind of session, its sessionState, and the
\* snapshot handleFinish took; runs: the hadError of the recordRun calls
\* made so far, in order
Session(kind, now) ==
    [kind |-> kind,
     coding |-> createInitialCodingState(now),
     writing |-> createInitialWritingState(now),
     finished |-> FALSE,
     runs |-> <<>>,
     codingSignals |-> NoCodingSignals,
     writingSignals |-> NoWritingSignals]

NoSession == Session("none", 0)

\* the activities rows tagged with the skill under evaluation, newest
\* first, as runs of equal rows: [day, observed, count]; the one proof card
\* a user shares and unshares
NoRows ==
    [activities |-> <<>>,
     proof_card |-> [is_shared |-> FALSE, share_token |-> 0]]

\* last: the status of the payload the latest evaluation returned;
\* unlockedBefore: some evaluation so far returned Unlocked
NoEvaluations == [last |-> "none", unlockedBefore |-> FALSE]

\* pending: the updates toggleShare has sent and the table has not applied;
\* issued: how many tokens crypto.randomUUID() has returned (token n is the
\* n-th, 0 is null); carried: the tokens the row has had as share_token;
\* revoked: the tokens it had had when an unshare succeeded; verify: the
\* last verifyCard, its token, whether it showed the card, and whether the
\* token was revoked by then
NoSharing ==
    [pending |-> {}, issued |-> 0, carried |-> {}, revoked |-> {},
     verify |-> [token |-> 0, card |-> FALSE, revokedBefore |-> FALSE]]

Init ==
    /\ content \in Requests
    /\ apiKey \in BOOLEAN
    /\ pc = "received"
    /\ fetchCalls = 0
    /\ reply = NoReply
    /\ response = NoResponse
    /\ fin = NoInput
    /\ fout = NoOutput
    /\ generator = GeneratorMounted("")
    /\ logger = LoggerMounted
    /\ extractor = NoSession
    /\ db = NoRows
    /\ evaluations = NoEvaluations
    /\ sharing = NoSharing

Next ==
    \/ Serve
    \/ \E r \in Replies : FetchReturns(r)

Spec == Init /\ [][Next]_vars

(***************************************************************************)
(* The rule functions applied to inputs drawn from bounded sets            *)
(***************************************************************************)
Metrics(days, sessions, hasObserved, observed, cycles, types) ==
    [uniqueDays |-> days, sessionCount |-> sessions,
     hasObservedEvidence |-> hasObserved, observedSessionCount |-> observed,
     totalDuration |-> 0, hasErrorCorrectionCycles |-> cycles,
     activityTypes |-> types]

MetricsInputs ==
    {Metrics(d, n, ho, o, c, t) :
        d \in 0..MaxCount, n \in 0..MaxCount, ho \in BOOLEAN,
        o \in 0..MaxCount, c \in BOOLEAN,
        t \in {{}, {"code"}, {"code", "document"}}}

RequirementsInputs ==
    [multiple_days : BOOLEAN, multiple_sessions : BOOLEAN,
     observed_evidence : BOOLEAN, growth_signal : BOOLEAN,
     consistency : BOOLEAN]

\* metrics in which only the two counts the messages quote vary
CountInputs ==
    {Metrics(d, n, FALSE, 0, FALSE, {}) : d \in 0..MaxCount, n \in 0..MaxCount}

\* the doubles 0.29999 and 0.44999
D_0_29999 == F(161055904, 239143776)

D_0_44999 == F(241586541, 185456688)

\* the bucket boundaries with their neighbouring doubles, the ends of the
\* score range, and every score the scorer produces
ScoreInputs ==
    {FZero, D_0_2, D_0_29999, D_0_3, D_0_44999, D_0_45, D_0_6,
     F(D_0_3.hi, D_0_3.lo - 8), F(D_0_3.hi, D_0_3.lo + 8),
     F(D_0_45.hi, D_0_45.lo - 8), F(D_0_45.hi, D_0_45.lo + 8)}
    \cup {calculateConfidenceScore(m) : m \in MetricsInputs}

RulesInit ==
    /\ fin \in {[NoInput EXCEPT !.kind = "requirements", !.r = r] :
                   r \in RequirementsInputs}
           \cup {[NoInput EXCEPT !.kind = "metrics", !.m = m] : m \in MetricsInputs}
           \cup {[NoInput EXCEPT !.kind = "score", !.s = s] : s \in ScoreInputs}
           \cup {[NoInput EXCEPT !.kind = "activities", !.acts = rows] :
                    rows \in SeqsUpTo(ActivityPool, MaxActs)}
           \cup {[NoInput EXCEPT !.kind = "missing", !.r = r, !.m = m] :
                    r \in RequirementsInputs, m \in CountInputs}
    /\ fout = NoOutput
    /\ content = [has_activities |-> FALSE, activities |-> <<>>,
                  skill_name |-> "Python"]
    /\ apiKey = TRUE
    /\ pc = "rules"
    /\ fetchCalls = 0
    /\ reply = NoReply
    /\ response = NoResponse
    /\ generator = GeneratorMounted("")
    /\ logger = LoggerMounted
    /\ extractor = NoSession
    /\ db = NoRows
    /\ evaluations = NoEvaluations
    /\ sharing = NoSharing

ApplyShouldUnlock ==
    /\ fin.kind = "requirements"
    /\ fout.fn = "none"
    /\ fout' = [Out("shouldUnlock") EXCEPT
                   !.b = shouldUnlock(fin.r),
                   !.c_b = rules_shouldUnlock(fin.r)]
    /\ UNCHANGED <<content, apiKey, pc, fetchCalls, reply, response, fin,
                 clientVars, tableVars>>

ApplyEvaluate ==
    /\ fin.kind = "metrics"
    /\ fout.fn = "none"
    /\ fout' = [Out("evaluateUnlockRequirements") EXCEPT
                   !.req = evaluateUnlockRequirements(fin.m),
                   !.c_req = rules_evaluateUnlockRequirements(fin.m)]
    /\ UNCHANGED <<content, apiKey, pc, fetchCalls, reply, response, fin,
                 clientVars, tableVars>>

ApplyScore ==
    /\ fin.kind = "metrics"
    /\ fout.fn = "none"
    /\ fout' = [Out("calculateConfidenceScore") EXCEPT
                   !.score = calculateConfidenceScore(fin.m),
                   !.c_score = rules_calculateConfidenceScore(fin.m)]
    /\ UNCHANGED <<content, apiKey, pc, fetchCalls, reply, response, fin,
                 clientVars, tableVars>>

\* the scorer applied again after one of the three counts grew by one:
\* prev keeps the score of the smaller metrics
ApplyScoreLarger(field) ==
    /\ fin.kind = "metrics"
    /\ fout.fn \in {"calculateConfidenceScore", "larger"}
    /\ fin.m[field] < MaxCount
    /\ LET m2 == [fin.m EXCEPT ![field] = @ + 1]
       IN  /\ fin' = [fin EXCEPT !.m = m2]
           /\ fout' = [Out("larger") EXCEPT
                          !.prev = fout.score,
                          !.c_prev = fout.c_score,
                          !.score = calculateConfidenceScore(m2),
                          !.c_score = rules_calculateConfidenceScore(m2)]
    /\ UNCHANGED <<content, apiKey, pc, fetchCalls, reply, response,
                 clientVars, tableVars>>

ApplyLevel ==
    /\ fin.kind = "score"
    /\ fout.fn = "none"
    /\ fout' = [Out("getConfidenceLevel") EXCEPT
                   !.level = getConfidenceLevel(fin.s),
                   !.c_level = rules_getConfidenceLevel(fin.s)]
    /\ UNCHANGED <<content, apiKey, pc, fetchCalls, reply, response, fin,
                 clientVars, tableVars>>

\* getMissingRequirements on any requirements and metrics, and on metrics
\* with the requirements evaluateUnlockRequirements gives for them
ApplyMissing ==
    /\ fin.kind \in {"missing", "metrics"}
    /\ fout.fn = "none"
    /\ LET r == IF fin.kind = "missing" THEN fin.r
                ELSE evaluateUnlockRequirements(fin.m)
           cr == IF fin.kind = "missing" THEN fin.r
                 ELSE rules_evaluateUnlockRequirements(fin.m)
       IN  fout' = [Out("getMissingRequirements") EXCEPT
                       !.req = r,
                       !.c_req = cr,
                       !.missing = getMissingRequirements(r, fin.m),
                       !.c_missing = rules_getMissingRequirements(cr, fin.m)]
    /\ UNCHANGED <<content, apiKey, pc, fetchCalls, reply, response, fin,
                 clientVars, tableVars>>

\* the whole rule pipeline on one list of rows: the server on the request
\* built from the rows, the client on the rows themselves
ApplyPipeline ==
    /\ fin.kind = "activities"
    /\ fout.fn = "none"
    /\ LET sActs == ToRequestList(fin.acts)
           sm == calculateEvidenceMetrics(sActs)
           sr == evaluateUnlockRequirements(sm)
           cm == rules_calculateEvidenceMetrics(fin.acts)
           cr == rules_evaluateUnlockRequirements(cm)
           server == IF MetricsThrow(sActs)
                       THEN [Out("pipeline") EXCEPT !.throws = TRUE]
                     ELSE [Out("pipeline") EXCEPT
                              !.metrics = sm,
                              !.req = sr,
                              !.b = shouldUnlock(sr),
                              !.missing = getMissingRequirements(sr, sm),
                              !.score = calculateConfidenceScore(sm),
                              !.level = getConfidenceLevel(calculateConfidenceScore(sm))]
       IN  fout' = IF rules_MetricsThrow(fin.acts)
                     THEN [server EXCEPT !.c_throws = TRUE]
                   ELSE [server EXCEPT
                            !.c_metrics = cm,
                            !.c_req = cr,
                            !.c_b = rules_shouldUnlock(cr),
                            !.c_missing = rules_getMissingRequirements(cr, cm),
                            !.c_score = rules_calculateConfidenceScore(cm),
                            !.c_level = rules_getConfidenceLevel(
                                            rules_calculateConfidenceScore(cm))]
    /\ UNCHANGED <<content, apiKey, pc, fetchCalls, reply, response, fin,
                 clientVars, tableVars>>

RulesNext ==
    \/ ApplyShouldUnlock
    \/ ApplyEvaluate
    \/ ApplyScore
    \/ \E field \in {"uniqueDays", "sessionCount", "observedSessionCount"} :
          ApplyScoreLarger(field)
    \/ ApplyLevel
    \/ ApplyMissing
    \/ ApplyPipeline

SpecRules == RulesInit /\ [][RulesNext]_vars

(***************************************************************************)
(* GenerateProofCard: the dialog that evaluates a skill and saves the card *)
(***************************************************************************)
\* useSkills(): the skills offered; "" is null
Skills == {"Python", "Writing", "Rust"}

\* getSkillActivities(name).length
SkillActivityCount(name) ==
    CASE name = "Python" -> 2
      [] name = "Writing" -> 1
      [] OTHER -> 0

\* what supabase.functions.invoke may hand back as data
ResultPool ==
    { NullResult,
      Result("locked", TUndef, Score("undefined", 0), TRUE),
      Result("locked", TStr("AI summary"), Score("number", 55), TRUE),
      Result("unlocked", TStr("AI summary"), Score("number", 55), FALSE),
      Result("unlocked", TStr("AI summary"), Score("number", 60), TRUE),
      Result("unlocked", TStr(""), Score("number", 55), FALSE),
      Result("unlocked", TStr(""), Score("number", 55), TRUE),
      Result("unlocked", TNum, Score("number", 55), TRUE),
      Result("unlocked", TUndef, Score("number", 55), TRUE),
      Result("unlocked", TStr("AI summary"), Score("number", 0), TRUE),
      Result("unlocked", TStr("AI summary"), Score("number", -5), TRUE),
      Result("unlocked", TStr("AI summary"), Score("string", 55), TRUE),
      Result("unlocked", TStr("AI summary"), Score("undefined", 0), TRUE),
      Result("", TStr("AI summary"), Score("number", 55), TRUE),
      Result("", TUndef, Score("undefined", 0), FALSE) }

isValidUnlockedResponse(data) ==
    /\ ~data.null
    /\ data.status = "unlocked"
    /\ data.evidence_summary.t = "string"
    /\ data.evidence_summary.text # ""
    /\ data.confidence_score.t = "number"
    /\ data.confidence_score.hundredths > 0

\* the branch of the render that trusts the status alone
RenderBranch_statusOnly(g) ==
    IF g.result.null THEN "select"
    ELSE IF g.result.status # "unlocked" THEN "locked"
    ELSE "unlocked"

\* part_005 443, 494, 578: the branch the render takes
RenderBranch(g) ==
    IF g.result.null THEN "select"
    ELSE IF g.result.status = "locked" \/ ~isValidUnlockedResponse(g.result)
      THEN "locked"
    ELSE "unlocked"

\* the locked branch reads result.current_progress.days_count and
\* result.missing_requirements.length: a TypeError during render when the
\* result has no such properties, and the component is gone
RenderThrows(g) == RenderBranch(g) = "locked" /\ ~g.result.locked_fields

\* what the user sees and can click
View(g) ==
    IF RenderThrows(g) THEN "crashed"
    ELSE IF ~g.open THEN "closed"
    ELSE RenderBranch(g)

\* DialogTrigger, and onOpenChange(true)
OpenDialog ==
    /\ View(generator) = "closed"
    /\ generator' = [generator EXCEPT !.open = TRUE]
    /\ UNCHANGED <<serverVars, logger, extractor>>

\* onOpenChange(false): Escape, the overlay, the X
DismissDialog ==
    /\ View(generator) \in {"select", "locked", "unlocked"}
    /\ generator' = [generator EXCEPT !.open = FALSE, !.result = NullResult,
                                      !.resultSkill = ""]
    /\ UNCHANGED <<serverVars, logger, extractor>>

\* the Cancel and Close buttons: setOpen(false)
CloseButton ==
    /\ View(generator) \in {"select", "locked"}
    /\ generator' = [generator EXCEPT !.open = FALSE]
    /\ UNCHANGED <<serverVars, logger, extractor>>

\* a skill button: setSelectedSkill(s)
SelectSkill(s) ==
    /\ View(generator) = "select"
    /\ generator' = [generator EXCEPT !.selectedSkill = s]
    /\ UNCHANGED <<serverVars, logger, extractor>>

\* the Evaluate button, disabled={!selectedSkill || isGenerating}:
\* generateCard up to the await
generateCard ==
    /\ View(generator) = "select"
    /\ generator.selectedSkill # ""
    /\ ~generator.isGenerating
    /\ generator' =
          IF SkillActivityCount(generator.selectedSkill) < 1 THEN generator
          ELSE [generator EXCEPT !.isGenerating = TRUE, !.inFlight = @ + 1,
                                 !.requestedSkill = generator.selectedSkill]
    /\ UNCHANGED <<serverVars, logger, extractor>>

\* generateCard after the await: setResult(data), or the catch when the
\* invocation gave an error; finally setIsGenerating(false)
InvokeSettles(failed, data) ==
    /\ View(generator) # "crashed"
    /\ generator.inFlight > 0
    /\ generator' = [generator EXCEPT
                        !.result = IF failed THEN @ ELSE data,
                        !.resultSkill = IF failed THEN @
                                        ELSE IF data.null THEN ""
                                        ELSE generator.requestedSkill,
                        !.requestedSkill = "",
                        !.isGenerating = FALSE,
                        !.inFlight = @ - 1]
    /\ UNCHANGED <<serverVars, logger, extractor>>

\* Try Another Skill, Back: setResult(null)
BackButton ==
    /\ View(generator) \in {"locked", "unlocked"}
    /\ generator' = [generator EXCEPT !.result = NullResult,
                                      !.resultSkill = ""]
    /\ UNCHANGED <<serverVars, logger, extractor>>

\* the Save Proof Card button of the unlocked branch: saveCard up to the
\* await of createProofCard
saveCard ==
    /\ View(generator) = "unlocked"
    /\ generator.saving < MaxSaving
    /\ generator' =
          IF \/ generator.result.null
             \/ generator.result.status # "unlocked"
             \/ generator.selectedSkill = ""
            THEN generator
          ELSE [generator EXCEPT
                   !.saving = @ + 1,
                   !.created = @ \cup {[skill_name |-> generator.selectedSkill,
                                         result |-> generator.result]},
                   !.savedForOther = @ \/ generator.selectedSkill #
                                              generator.resultSkill]
    /\ UNCHANGED <<serverVars, logger, extractor>>

\* saveCard after the await: createProofCard gave the card, or null
CreateSettles(card) ==
    /\ View(generator) # "crashed"
    /\ generator.saving > 0
    /\ generator' =
          IF card
            THEN [generator EXCEPT !.saving = @ - 1, !.open = FALSE,
                                   !.result = NullResult, !.resultSkill = "",
                                   !.selectedSkill = ""]
          ELSE [generator EXCEPT !.saving = @ - 1]
    /\ UNCHANGED <<serverVars, logger, extractor>>

GeneratorInit ==
    /\ generator \in {GeneratorMounted(s) : s \in Skills \cup {""}}
    /\ logger = LoggerMounted
    /\ extractor = NoSession
    /\ content = [has_activities |-> FALSE, activities |-> <<>>,
                  skill_name |-> "Python"]
    /\ apiKey = TRUE
    /\ pc = "client"
    /\ fetchCalls = 0
    /\ reply = NoReply
    /\ response = NoResponse
    /\ fin = NoInput
    /\ fout = NoOutput
    /\ db = NoRows
    /\ evaluations = NoEvaluations
    /\ sharing = NoSharing

GeneratorNext ==
    \/ OpenDialog
    \/ DismissDialog
    \/ CloseButton
    \/ \E s \in Skills : SelectSkill(s)
    \/ generateCard
    \/ \E failed \in BOOLEAN, data \in ResultPool : InvokeSettles(failed, data)
    \/ BackButton
    \/ saveCard
    \/ \E card \in BOOLEAN : CreateSettles(card)

SpecGenerator == GeneratorInit /\ [][GeneratorNext]_vars

(***************************************************************************)
(* ActivityLogger: the dialog that logs an activity, with its learning     *)
(* spaces                                                                  *)
(***************************************************************************)
\* the learning space replaces the dialog while a session runs
InSpace(l) == l.sessionMode \in {"code", "writing"}

\* the Log Activity button: setOpen(true)
LogActivityButton ==
    /\ ~logger.open
    /\ logger' = [logger EXCEPT !.open = TRUE]
    /\ UNCHANGED <<serverVars, generator, extractor>>

handleTypeSelect(selectedType) ==
    /\ logger.open /\ ~InSpace(logger) /\ logger.sessionMode # "form"
    /\ logger' =
          IF selectedType = "code"
            THEN [logger EXCEPT !.type = selectedType, !.open = FALSE,
                                !.sessionMode = "code"]
          ELSE IF selectedType = "document"
            THEN [logger EXCEPT !.type = selectedType, !.open = FALSE,
                                !.sessionMode = "writing"]
          ELSE [logger EXCEPT !.type = selectedType]
    /\ UNCHANGED <<serverVars, generator, extractor>>

\* onFinish of the CodingSpace, with the snapshot extractSignals gave
handleCodeSessionFinish(suggestedTitle) ==
    /\ logger.sessionMode = "code"
    /\ logger' = [logger EXCEPT
                     !.sessionMode = "form", !.signals = "coding",
                     !.title = suggestedTitle,
                     !.evidenceSource = "observed_in_proof",
                     !.type = "code", !.open = TRUE]
    /\ UNCHANGED <<serverVars, generator, extractor>>

\* onFinish of the WritingSpace
handleWritingSessionFinish(suggestedTitle) ==
    /\ logger.sessionMode = "writing"
    /\ logger' = [logger EXCEPT
                     !.sessionMode = "form", !.signals = "writing",
                     !.title = suggestedTitle,
                     !.evidenceSource = "observed_in_proof",
                     !.type = "document", !.open = TRUE]
    /\ UNCHANGED <<serverVars, generator, extractor>>

\* onCancel of either space
handleSessionCancel ==
    /\ InSpace(logger)
    /\ logger' = [logger EXCEPT
                     !.sessionMode = "none", !.signals = "undefined",
                     !.evidenceSource = "submitted"]
    /\ UNCHANGED <<serverVars, generator, extractor>>

\* the title input
setTitle(text) ==
    /\ logger.open /\ ~InSpace(logger)
    /\ logger' = [logger EXCEPT !.title = text]
    /\ UNCHANGED <<serverVars, generator, extractor>>

\* resetForm leaving sessionData as it is
resetForm_keepsSessionData(l) ==
    [l EXCEPT !.type = "code", !.title = "", !.sessionMode = "none",
              !.evidenceSource = "submitted"]

resetForm(l) ==
    [l EXCEPT !.type = "code", !.title = "", !.sessionMode = "none",
              !.signals = "undefined", !.evidenceSource = "submitted"]

\* onOpenChange(false) and the Cancel button: close, and reset after a
\* session
CloseLogger ==
    /\ logger.open /\ ~InSpace(logger)
    /\ logger' = IF logger.sessionMode = "form"
                   THEN resetForm([logger EXCEPT !.open = FALSE])
                 ELSE [logger EXCEPT !.open = FALSE]
    /\ UNCHANGED <<serverVars, generator, extractor>>

\* handleSubmit up to the await of addActivity
handleSubmit ==
    /\ logger.open /\ ~InSpace(logger)
    /\ logger.adding < MaxAdding
    /\ logger' =
          IF logger.title = "" THEN logger
          ELSE [logger EXCEPT
                   !.adding = @ + 1,
                   !.submitted = @ \cup
                       {[type |-> logger.type,
                         evidence_source |-> logger.evidenceSource,
                         learning_signals |->
                             IF logger.signals = "undefined" THEN "null"
                             ELSE logger.signals]}]
    /\ UNCHANGED <<serverVars, generator, extractor>>

\* handleSubmit after the await: addActivity gave the row, or null
AddSettles(activity) ==
    /\ logger.adding > 0
    /\ logger' =
          IF activity
            THEN resetForm([logger EXCEPT !.adding = @ - 1, !.open = FALSE])
          ELSE [logger EXCEPT !.adding = @ - 1]
    /\ UNCHANGED <<serverVars, generator, extractor>>

LoggerInit ==
    /\ logger = LoggerMounted
    /\ generator = GeneratorMounted("")
    /\ extractor = NoSession
    /\ content = [has_activities |-> FALSE, activities |-> <<>>,
                  skill_name |-> "Python"]
    /\ apiKey = TRUE
    /\ pc = "client"
    /\ fetchCalls = 0
    /\ reply = NoReply
    /\ response = NoResponse
    /\ fin = NoInput
    /\ fout = NoOutput
    /\ db = NoRows
    /\ evaluations = NoEvaluations
    /\ sharing = NoSharing

LoggerNext ==
    \/ LogActivityButton
    \/ \E t \in {"code", "document", "commit", "review", "manual"} :
          handleTypeSelect(t)
    \/ \E t \in {"", "Coding session"} : handleCodeSessionFinish(t)
    \/ \E t \in {"", "Writing session"} : handleWritingSessionFinish(t)
    \/ handleSessionCancel
    \/ \E t \in {"", "My work"} : setTitle(t)
    \/ CloseLogger
    \/ handleSubmit
    \/ \E activity \in BOOLEAN : AddSettles(activity)

SpecLogger == LoggerInit /\ [][LoggerNext]_vars

(***************************************************************************)
(* The signal extractors of the learning spaces                            *)
(***************************************************************************)
\* intervals.reduce((a, b) => a + b, 0), in half seconds
RECURSIVE SumIntervals(_)
SumIntervals(timestamps) ==
    IF Len(timestamps) < 2 THEN 0
    ELSE (timestamps[2] - timestamps[1]) + SumIntervals(Tail(timestamps))

\* Math.round(sum / intervals.length) of the intervals in seconds:
\* Math.round(x) is floor(x + 0.5)
RoundedAverage(timestamps) ==
    LET count == Len(timestamps) - 1
    IN  (SumIntervals(timestamps) + count) \div (2 * count)

\* recordEdit that also forgets the outcome of the last run
recordEdit_clearsLastRun(state) ==
    [state EXCEPT !.editCount = @ + 1, !.lastRunHadError = FALSE]

recordEdit(state) == [state EXCEPT !.editCount = @ + 1]

\* recordRun that keeps no timestamp of a run that failed
recordRun_noTimestampOnError(state, hadError, now) ==
    IF hadError
      THEN [state EXCEPT !.runCount = @ + 1,
                         !.errorCount = @ + 1,
                         !.lastRunHadError = TRUE]
    ELSE [state EXCEPT
             !.runCount = @ + 1,
             !.runTimestamps = Append(@, now),
             !.successfulRuns = @ + 1,
             !.errorCorrectionCycles =
                 IF state.lastRunHadError THEN @ + 1 ELSE @,
             !.lastRunHadError = FALSE]

recordRun(state, hadError, now) ==
    LET newState == [state EXCEPT !.runCount = @ + 1,
                                  !.runTimestamps = Append(@, now)]
    IN  IF hadError
          THEN [newState EXCEPT !.errorCount = state.errorCount + 1,
                                !.lastRunHadError = TRUE]
        ELSE [newState EXCEPT
                 !.successfulRuns = state.successfulRuns + 1,
                 !.errorCorrectionCycles =
                     IF state.lastRunHadError THEN state.errorCorrectionCycles + 1
                     ELSE @,
                 !.lastRunHadError = FALSE]

\* the coding extractSignals averaging as soon as one timestamp exists:
\* with one timestamp the average is 0 / 0, a NaN and not null
coding_extractSignals_fromOneTimestamp(state, finalCodeLength, now) ==
    [edit_count |-> state.editCount,
     run_count |-> state.runCount,
     error_count |-> state.errorCount,
     successful_runs |-> state.successfulRuns,
     error_correction_cycles |-> state.errorCorrectionCycles,
     time_between_runs_avg_seconds |->
         IF Len(state.runTimestamps) > 1
           THEN Num(RoundedAverage(state.runTimestamps))
         ELSE IF Len(state.runTimestamps) > 0 THEN Num(0)
         ELSE Null,
     session_duration_seconds |-> (now - state.sessionStartTime) \div 2,
     final_code_length |-> finalCodeLength]

coding_extractSignals(state, finalCodeLength, now) ==
    [edit_count |-> state.editCount,
     run_count |-> state.runCount,
     error_count |-> state.errorCount,
     successful_runs |-> state.successfulRuns,
     error_correction_cycles |-> state.errorCorrectionCycles,
     time_between_runs_avg_seconds |->
         IF Len(state.runTimestamps) > 1
           THEN Num(RoundedAverage(state.runTimestamps))
         ELSE Null,
     session_duration_seconds |-> (now - state.sessionStartTime) \div 2,
     final_code_length |-> finalCodeLength]

countWords(text) == text.words

Abs(x) == IF x < 0 THEN -x ELSE x

\* recordRevision that stamps a revision it then rejects
recordRevision_stampsRejected(state, newContent, newHtml, now) ==
    LET wordDiff == Abs(countWords(newContent) - countWords(state.lastContent))
        paragraphDiff == Abs(newHtml.paragraphs - state.lastParagraphCount)
        stamped == [state EXCEPT !.revisionTimestamps = Append(@, now)]
    IN  IF wordDiff < 5 /\ Abs(newContent.length - state.lastContent.length) < 20
          THEN stamped
        ELSE [stamped EXCEPT
                 !.revisionCount = @ + 1,
                 !.wordCountChanges = Append(@, countWords(newContent)),
                 !.lastContent = newContent,
                 !.lastParagraphCount = newHtml.paragraphs,
                 !.lastHeadingCount = newHtml.headings,
                 !.structuralChanges =
                     IF paragraphDiff >= 2 \/ newHtml.headings # state.lastHeadingCount
                       THEN @ + 1 ELSE @,
                 !.paragraphRewrites =
                     IF paragraphDiff < 2 /\ wordDiff >= 20 THEN @ + 1 ELSE @]

recordRevision(state, newContent, newHtml, now) ==
    LET oldWordCount == countWords(state.lastContent)
        newWordCount == countWords(newContent)
        wordDiff == Abs(newWordCount - oldWordCount)
        paragraphDiff == Abs(newHtml.paragraphs - state.lastParagraphCount)
    IN  IF wordDiff < 5 /\ Abs(newContent.length - state.lastContent.length) < 20
          THEN state
        ELSE [state EXCEPT
                 !.revisionCount = @ + 1,
                 !.revisionTimestamps = Append(@, now),
                 !.wordCountChanges = Append(@, newWordCount),
                 !.lastContent = newContent,
                 !.lastParagraphCount = newHtml.paragraphs,
                 !.lastHeadingCount = newHtml.headings,
                 !.structuralChanges =
                     IF paragraphDiff >= 2 \/ newHtml.headings # state.lastHeadingCount
                       THEN @ + 1 ELSE @,
                 !.paragraphRewrites =
                     IF paragraphDiff < 2 /\ wordDiff >= 20 THEN @ + 1 ELSE @]

recordAutoSave(state) == [state EXCEPT !.autoSaveCount = @ + 1]

writing_extractSignals(state, finalContent, now) ==
    [revision_count |-> state.revisionCount,
     paragraph_rewrites |-> state.paragraphRewrites,
     structural_changes |-> state.structuralChanges,
     word_count_changes |-> state.wordCountChanges,
     time_between_revisions_avg_seconds |->
         IF Len(state.revisionTimestamps) > 1
           THEN Num(RoundedAverage(state.revisionTimestamps))
         ELSE Null,
     session_duration_seconds |-> (now - state.sessionStartTime) \div 2,
     final_word_count |-> countWords(finalContent),
     auto_save_count |-> state.autoSaveCount]

\* what the editor may hold: the text and its html
Documents ==
    { [text |-> [words |-> 0, length |-> 0],
       html |-> [paragraphs |-> 0, headings |-> 0]],
      [text |-> [words |-> 3, length |-> 25],
       html |-> [paragraphs |-> 1, headings |-> 0]],
      [text |-> [words |-> 30, length |-> 180],
       html |-> [paragraphs |-> 1, headings |-> 1]],
      [text |-> [words |-> 32, length |-> 190],
       html |-> [paragraphs |-> 4, headings |-> 1]] }

\* setSessionState(prev => recordEdit(prev))
Edit ==
    /\ extractor.kind = "coding" /\ ~extractor.finished
    /\ extractor.coding.editCount < MaxEvents
    /\ extractor' = [extractor EXCEPT !.coding = recordEdit(@)]
    /\ UNCHANGED <<serverVars, generator, logger>>

\* setSessionState(prev => recordRun(prev, hadError))
Run(hadError, now) ==
    /\ extractor.kind = "coding" /\ ~extractor.finished
    /\ extractor.coding.runCount < MaxEvents
    /\ extractor' = [extractor EXCEPT !.coding = recordRun(@, hadError, now),
                                      !.runs = Append(@, hadError)]
    /\ UNCHANGED <<serverVars, generator, logger>>

\* setSessionState(prev => recordRevision(prev, text, html))
Revise(doc, now) ==
    /\ extractor.kind = "writing" /\ ~extractor.finished
    /\ extractor.writing.revisionCount < MaxEvents
    /\ extractor' = [extractor EXCEPT
                        !.writing = recordRevision(@, doc.text, doc.html, now)]
    /\ UNCHANGED <<serverVars, generator, logger>>

\* setSessionState(prev => recordAutoSave(prev))
AutoSave ==
    /\ extractor.kind = "writing" /\ ~extractor.finished
    /\ extractor.writing.autoSaveCount < MaxEvents
    /\ extractor' = [extractor EXCEPT !.writing = recordAutoSave(@)]
    /\ UNCHANGED <<serverVars, generator, logger>>

\* handleFinish of the CodingSpace and of the WritingSpace
Finish(doc, now) ==
    /\ extractor.kind \in {"coding", "writing"} /\ ~extractor.finished
    /\ extractor' =
          IF extractor.kind = "coding"
            THEN [extractor EXCEPT
                     !.finished = TRUE,
                     !.codingSignals =
                         coding_extractSignals(extractor.coding,
                                               doc.text.length, now)]
          ELSE [extractor EXCEPT
                   !.finished = TRUE,
                   !.writingSignals =
                       writing_extractSignals(extractor.writing, doc.text, now)]
    /\ UNCHANGED <<serverVars, generator, logger>>

ExtractorInit ==
    /\ extractor \in {Session(kind, now) :
                         kind \in {"coding", "writing"}, now \in TimeValues}
    /\ generator = GeneratorMounted("")
    /\ logger = LoggerMounted
    /\ content = [has_activities |-> FALSE, activities |-> <<>>,
                  skill_name |-> "Python"]
    /\ apiKey = TRUE
    /\ pc = "client"
    /\ fetchCalls = 0
    /\ reply = NoReply
    /\ response = NoResponse
    /\ fin = NoInput
    /\ fout = NoOutput
    /\ db = NoRows
    /\ evaluations = NoEvaluations
    /\ sharing = NoSharing

ExtractorNext ==
    \/ Edit
    \/ \E hadError \in BOOLEAN, now \in TimeValues : Run(hadError, now)
    \/ \E doc \in Documents, now \in TimeValues : Revise(doc, now)
    \/ AutoSave
    \/ \E doc \in Documents, now \in TimeValues : Finish(doc, now)

SpecExtractor == ExtractorInit /\ [][ExtractorNext]_vars

(***************************************************************************)
(* A skill's evidence: activities are logged, and the skill is evaluated   *)
(* through GenerateProofCard on the rows the dialog sends                  *)
(***************************************************************************)
\* the calendar days of created_at, in order
Days == <<"D1", "D2", "D3">>

\* the row of a run: an observed coding session with one error-correction
\* cycle, or a submitted activity
RowOf(run) ==
    IF run.observed
      THEN Act(JStr(<<Days[run.day], "T", "t1">>), "code",
               "observed_in_proof", Signals(1), 20)
    ELSE Act(JStr(<<Days[run.day], "T", "t1">>), "code", "submitted",
             NoSignals, 30)

RECURSIVE Rows(_)
\* the rows the runs stand for, newest first
Rows(runs) ==
    IF runs = <<>> THEN <<>>
    ELSE [i \in 1..Head(runs).count |-> RowOf(Head(runs))] \o Rows(Tail(runs))

RECURSIVE RowCount(_)
RowCount(runs) ==
    IF runs = <<>> THEN 0 ELSE Head(runs).count + RowCount(Tail(runs))

RECURSIVE ObservedCount(_)
ObservedCount(runs) ==
    IF runs = <<>> THEN 0
    ELSE (IF Head(runs).observed THEN Head(runs).count ELSE 0)
         + ObservedCount(Tail(runs))

\* setActivities(prev => [data, ...prev])
Prepend(runs, day, observed) ==
    IF runs # <<>> /\ Head(runs).day = day /\ Head(runs).observed = observed
      THEN <<[Head(runs) EXCEPT !.count = @ + 1]>> \o Tail(runs)
    ELSE <<[day |-> day, observed |-> observed, count |-> 1]>> \o runs

\* activities.filter(a => a.skills_practiced?.includes(skillName)).slice(0, 20)
\* on rows that are all tagged with the skill
getSkillActivities(rows) ==
    SubSeq(rows, 1, IF Len(rows) < WindowSize THEN Len(rows) ELSE WindowSize)

\* index.ts 276, 336, 350: the replies on which the handler raises after
\* the gate, which the outer catch turns into status 500
ReplyRaises(r) ==
    \/ r.kind = "throw"
    \/ r.ok /\ r.body \in {"notjson", "null"}
    \/ r.ok /\ r.body = "content" /\ r.parsed = "null"

\* the status of what the edge function returns for the request content c
\* when the key is set: "error" stands for status 500; raises: the
\* gateway's reply is one on which the handler raises
EvaluationStatus(c, raises) ==
    LET activities == RequestActivities(c)
        metrics == calculateEvidenceMetrics(activities)
        requirements == evaluateUnlockRequirements(metrics)
    IN  IF MetricsThrow(activities) THEN "error"
        ELSE IF ~shouldUnlock(requirements) THEN "locked"
        ELSE IF raises THEN "error"
        ELSE "unlocked"

\* useActivities.addActivity for an activity tagged with the skill: the row
\* gets created_at = now() and is put first; now() never goes back
addActivity(day, observed) ==
    /\ RowCount(db.activities) < MaxLogged
    /\ IF db.activities = <<>> THEN TRUE ELSE day >= Head(db.activities).day
    /\ Len(Prepend(db.activities, day, observed)) <= MaxRuns
    /\ observed => ObservedCount(db.activities) < MaxObserved
    /\ db' = [db EXCEPT !.activities = Prepend(@, day, observed)]
    /\ UNCHANGED <<content, apiKey, pc, fetchCalls, reply, response, fin, fout,
                   clientVars, evaluations, sharing>>

\* GenerateProofCard.generateCard for the skill, with the edge function
\* behind it
EvaluateSkill(raises) ==
    LET skillActivities == getSkillActivities(Rows(db.activities))
        c == [has_activities |-> TRUE,
              activities |-> ToRequestList(skillActivities),
              skill_name |-> "Python"]
        status == EvaluationStatus(c, raises)
    IN  /\ Len(skillActivities) >= 1
        /\ evaluations' = [last |-> status,
                           unlockedBefore |-> evaluations.unlockedBefore
                                              \/ status = "unlocked"]
        /\ UNCHANGED <<content, apiKey, pc, fetchCalls, reply, response, fin,
                       fout, clientVars, db, sharing>>

EvidenceInit ==
    /\ db = NoRows
    /\ evaluations = NoEvaluations
    /\ sharing = NoSharing
    /\ generator = GeneratorMounted("Python")
    /\ logger = LoggerMounted
    /\ extractor = NoSession
    /\ content = [has_activities |-> FALSE, activities |-> <<>>,
                  skill_name |-> "Python"]
    /\ apiKey = TRUE
    /\ pc = "client"
    /\ fetchCalls = 0
    /\ reply = NoReply
    /\ response = NoResponse
    /\ fin = NoInput
    /\ fout = NoOutput

EvidenceNext ==
    \/ \E day \in 1..Len(Days), observed \in BOOLEAN : addActivity(day, observed)
    \/ \E raises \in {ReplyRaises(r) : r \in Replies} : EvaluateSkill(raises)

SpecEvidence == EvidenceInit /\ [][EvidenceNext]_vars

(***************************************************************************)
(* Sharing a proof card, and the Verify page                               *)
(***************************************************************************)
\* toggleShare with a token derived from the card: the same at every share
NewShareToken_samePerCard(isShared, issued) == IF isShared THEN 1 ELSE 0

\* useProofCards 83: isShared ? crypto.randomUUID() : null; a UUID that was
\* never returned before
NewShareToken(isShared, issued) == IF isShared THEN issued + 1 ELSE 0

\* toggleShare(id, isShared) up to the await: the token is made, the update
\* is sent
toggleShare(isShared) ==
    /\ Cardinality(sharing.pending) < MaxPending
    /\ isShared => sharing.issued < MaxTokens
    /\ sharing' = [sharing EXCEPT
                      !.pending = @ \cup
                          {[is_shared |-> isShared,
                            share_token |-> NewShareToken(isShared, sharing.issued)]},
                      !.issued = IF isShared THEN @ + 1 ELSE @]
    /\ UNCHANGED <<content, apiKey, pc, fetchCalls, reply, response, fin, fout,
                   clientVars, db, evaluations>>

\* the update reaches the table and toggleShare returns: the row is
\* rewritten, or the update fails and the row is left alone
UpdateSettles(update, error) ==
    /\ update \in sharing.pending
    /\ db' = IF error THEN db ELSE [db EXCEPT !.proof_card = update]
    /\ sharing' = [sharing EXCEPT
                      !.pending = @ \ {update},
                      !.carried = IF ~error /\ update.is_shared
                                    THEN @ \cup {update.share_token} ELSE @,
                      !.revoked = IF ~error /\ ~update.is_shared
                                    THEN sharing.carried ELSE @]
    /\ UNCHANGED <<content, apiKey, pc, fetchCalls, reply, response, fin, fout,
                   clientVars, evaluations>>

\* the row the query of verifyCard selects: share_token = token and
\* is_shared = true
Verifies(token) ==
    /\ db.proof_card.is_shared
    /\ db.proof_card.share_token = token

\* Verify.verifyCard(verifyToken); token 0 is a blank string, for which no
\* query is made; dbError: the query failed
verifyCard(verifyToken, dbError) ==
    /\ verifyToken # 0
    /\ sharing' = [sharing EXCEPT
                      !.verify = [token |-> verifyToken,
                                  card |-> ~dbError /\ Verifies(verifyToken),
                                  revokedBefore |-> verifyToken \in sharing.revoked]]
    /\ UNCHANGED <<content, apiKey, pc, fetchCalls, reply, response, fin, fout,
                   clientVars, db, evaluations>>

SharingInit ==
    /\ db = NoRows
    /\ evaluations = NoEvaluations
    /\ sharing = NoSharing
    /\ generator = GeneratorMounted("")
    /\ logger = LoggerMounted
    /\ extractor = NoSession
    /\ content = [has_activities |-> FALSE, activities |-> <<>>,
                  skill_name |-> "Python"]
    /\ apiKey = TRUE
    /\ pc = "client"
    /\ fetchCalls = 0
    /\ reply = NoReply
    /\ response = NoResponse
    /\ fin = NoInput
    /\ fout = NoOutput

SharingNext ==
    \/ \E isShared \in BOOLEAN : toggleShare(isShared)
    \/ \E update \in sharing.pending, error \in BOOLEAN :
          UpdateSettles(update, error)
    \/ \E verifyToken \in 0..MaxTokens, dbError \in BOOLEAN :
          verifyCard(verifyToken, dbError)

SpecSharing == SharingInit /\ [][SharingNext]_vars

(***************************************************************************)
(* Claims                                                                  *)
(***************************************************************************)
ServedActivities == RequestActivities(content)

ServedMetrics == calculateEvidenceMetrics(ServedActivities)

ServedRequirements == evaluateUnlockRequirements(ServedMetrics)

\* C1: in a generate_proof_card evaluation, while shouldUnlock(requirements)
\* is false the AI gateway is never called, and a Locked payload is only ever
\* returned by an evaluation that has made no call.
C1_LockedNeverCallsCollaborator ==
    /\ ~shouldUnlock(ServedRequirements) => fetchCalls = 0
    /\ response.status = "locked" => fetchCalls = 0

\* C1 witness: a served list of three activities that misses exactly one
\* requirement got its Locked payload.
C1_Witness ==
    /\ pc = "done"
    /\ apiKey
    /\ response.status = "locked"
    /\ Len(ServedActivities) = 3
    /\ Len(response.missing_requirements) = 1
    /\ fetchCalls = 0

\* C2: whatever Response the collaborator gives (2xx with any content,
\* non-2xx, unparseable content), the payload returned has status "unlocked"
\* and the requirements_met, confidence_score, confidence_level and
\* growth_trend computed from the activity list alone.
C2_DeterministicFieldsWhateverTheReply ==
    (pc = "done" /\ reply.kind = "http") =>
        /\ response.status = "unlocked"
        /\ response.requirements_met = ServedRequirements
        /\ response.confidence_score = calculateConfidenceScore(ServedMetrics)
        /\ response.confidence_level =
               getConfidenceLevel(calculateConfidenceScore(ServedMetrics))
        /\ response.growth_trend =
               (IF ServedMetrics.hasErrorCorrectionCycles
                THEN "improving" ELSE "stable")

\* the collaborator failed: the call threw, the status was not a success, or
\* the content was no JSON or parsed to {}
FailedReply(r) ==
    \/ r.kind = "throw"
    \/ r.kind = "http" /\ ~r.ok
    \/ r.kind = "http" /\ r.ok /\ r.body = "content" /\ r.parsed = "syntaxerror"
    \/ /\ r.kind = "http" /\ r.ok /\ r.body = "content" /\ r.parsed = "object"
       /\ r.evidence_summary = TUndef /\ ~r.has_trends /\ r.limitations = TUndef

\* C3: when the collaborator call throws, is not ok, or gives content that is
\* {} or no JSON, an activity list meeting all five requirements still gets a
\* 200 payload with status "unlocked", a non-empty templated evidence_summary
\* built from the metrics and confidence_score =
\* calculateConfidenceScore(metrics); never an error response.
C3_FallbackNeverAnError ==
    (pc = "done" /\ FailedReply(reply)) =>
        /\ response.http = 200
        /\ "error" \notin response.keys
        /\ response.status = "unlocked"
        /\ TextNonEmpty(response.evidence_summary)
        /\ response.evidence_summary.n = ServedMetrics.sessionCount
        /\ response.evidence_summary.d = ServedMetrics.uniqueDays
        /\ response.confidence_score = calculateConfidenceScore(ServedMetrics)

\* C4: with LOVABLE_API_KEY unset an evaluation still returns the
\* deterministic result, Locked for a list failing a requirement and Unlocked
\* for a list meeting all five, and never an error response.
C4_MissingKeyStillDecides ==
    (pc = "done" /\ ~apiKey /\ ~MetricsThrow(ServedActivities)) =>
        /\ response.http = 200
        /\ "error" \notin response.keys
        /\ response.status =
               (IF shouldUnlock(ServedRequirements) THEN "unlocked" ELSE "locked")

RequirementNames ==
    {"multiple_days", "multiple_sessions", "observed_evidence",
     "growth_signal", "consistency"}

\* C5: for every UnlockRequirements value, shouldUnlock (server and client)
\* is true iff all five requirements are true; so one false requirement
\* among five makes it false.
C5_ShouldUnlockIsConjunction ==
    fout.fn = "shouldUnlock" =>
        /\ fout.b <=> (\A f \in RequirementNames : fin.r[f])
        /\ fout.c_b <=> (\A f \in RequirementNames : fin.r[f])

\* C5 witness: shouldUnlock applied to a value with exactly one false
\* requirement gave false.
C5_Witness ==
    /\ fout.fn = "shouldUnlock"
    /\ Cardinality({f \in RequirementNames : ~fin.r[f]}) = 1
    /\ ~fout.b
    /\ ~fout.c_b

ExpectedRequirements(m) ==
    [multiple_days |-> m.uniqueDays >= 3,
     multiple_sessions |-> m.sessionCount >= 3,
     observed_evidence |-> m.hasObservedEvidence,
     growth_signal |-> m.hasErrorCorrectionCycles \/ m.observedSessionCount >= 2,
     consistency |-> m.activityTypes # {} /\ m.sessionCount >= 3]

\* C6: for every metrics value with non-negative counts,
\* evaluateUnlockRequirements (server and client) returns multiple_days =
\* (uniqueDays >= 3), multiple_sessions = (sessionCount >= 3),
\* observed_evidence = hasObservedEvidence, growth_signal =
\* (hasErrorCorrectionCycles or observedSessionCount >= 2) and consistency =
\* (activityTypes non-empty and sessionCount >= 3).
C6_RequirementsFollowTheRules ==
    fout.fn = "evaluateUnlockRequirements" =>
        /\ fout.req = ExpectedRequirements(fin.m)
        /\ fout.c_req = ExpectedRequirements(fin.m)

\* C6 witness: metrics exactly at the day threshold, with growth by two
\* observed sessions only, and no activity type, were evaluated.
C6_Witness ==
    /\ fout.fn = "evaluateUnlockRequirements"
    /\ fin.m.uniqueDays = 3
    /\ fin.m.sessionCount = 3
    /\ ~fin.m.hasErrorCorrectionCycles
    /\ fin.m.observedSessionCount = 2
    /\ ~fin.m.hasObservedEvidence
    /\ fin.m.activityTypes = {}
    /\ fout.req.multiple_days
    /\ fout.req.growth_signal
    /\ ~fout.req.observed_evidence
    /\ ~fout.req.consistency

InScoreRange(x) ==
    /\ x.hi > 107374182 \/ (x.hi = 107374182 /\ x.lo >= 107374184)
    /\ x.hi < 322122547 \/ (x.hi = 322122547 /\ x.lo <= 53687088)

\* C8: for every metrics value with non-negative counts,
\* calculateConfidenceScore (server and client) returns a value in
\* [0.2, 0.6] inclusive.
C8_ScoreWithinRange ==
    fout.fn \in {"calculateConfidenceScore", "larger"} =>
        /\ InScoreRange(fout.score)
        /\ InScoreRange(fout.c_score)

\* C8 witness: the scorer was applied to metrics whose every term is at or
\* above its cap and gave 0.6.
C8_Witness ==
    /\ fout.fn = "calculateConfidenceScore"
    /\ fin.m.uniqueDays >= 3
    /\ fin.m.sessionCount >= 3
    /\ fin.m.observedSessionCount >= 2
    /\ fin.m.hasErrorCorrectionCycles
    /\ fout.score = F(322122547, 53687088)

\* C9: calculateConfidenceScore is monotone: when one of uniqueDays,
\* sessionCount, observedSessionCount grows and nothing else changes, the
\* score does not decrease.
C9_ScoreMonotone ==
    fout.fn = "larger" =>
        /\ FLeq(fout.c_prev, fout.c_score)
        /\ FLeq(fout.prev, fout.score)

\* C9 witness: uniqueDays grew below its cap and the score grew with it.
C9_Witness ==
    /\ fout.fn = "larger"
    /\ fin.m.uniqueDays = 1
    /\ fin.m.sessionCount = 0
    /\ fin.m.observedSessionCount = 0
    /\ FLess(fout.c_prev, fout.c_score)
    /\ FLess(fout.prev, fout.score)

\* a double, as [hi, lo], is below 0.3; below 0.45
Below03(x) == x.hi < 161061273 \/ (x.hi = 161061273 /\ x.lo < 161061272)

Below045(x) == x.hi < 241591910 \/ (x.hi = 241591910 /\ x.lo < 107374184)

\* C10: getConfidenceLevel (server and client) gives "emerging" exactly for
\* scores below 0.3, "developing" exactly for scores from 0.3 up to but not
\* including 0.45, and "early_evidence" exactly from 0.45 on; in particular
\* 0.29999 -> emerging, 0.3 -> developing, 0.44999 -> developing,
\* 0.45 -> early_evidence, 0.6 -> early_evidence.
C10_LevelBuckets ==
    fout.fn = "getConfidenceLevel" =>
        /\ fout.c_level = fout.level
        /\ fout.level = "emerging" <=> Below03(fin.s)
        /\ fout.level = "developing" <=> (~Below03(fin.s) /\ Below045(fin.s))
        /\ fout.level = "early_evidence" <=> ~Below045(fin.s)
        /\ fin.s = D_0_29999 => fout.level = "emerging"
        /\ fin.s = D_0_3 => fout.level = "developing"
        /\ fin.s = D_0_44999 => fout.level = "developing"
        /\ fin.s = D_0_45 => fout.level = "early_evidence"
        /\ fin.s = D_0_6 => fout.level = "early_evidence"

\* C10 witness: the boundary score 0.45 was put in the upper bucket.
C10_Witness ==
    /\ fout.fn = "getConfidenceLevel"
    /\ fin.s = F(241591910, 107374184)
    /\ fout.level = "early_evidence"
    /\ fout.c_level = "early_evidence"

\* C11: a Locked payload never carries confidence_score or confidence_level:
\* the scorer's result is put only into the payloads of the unlocked path, so
\* a payload that carries a confidence field has status "unlocked" and was
\* built for a list that meets all five requirements. A list with
\* uniqueDays = 2 and every other requirement met never gets them.
C11_LockedCarriesNoConfidence ==
    /\ response.status = "locked" =>
          /\ "confidence_score" \notin response.keys
          /\ "confidence_level" \notin response.keys
          /\ response.confidence_score = FZero
          /\ response.confidence_level = ""
    /\ ("confidence_score" \in response.keys \/ "confidence_level" \in response.keys) =>
          /\ response.status = "unlocked"
          /\ shouldUnlock(ServedRequirements)
    /\ (~MetricsThrow(ServedActivities) /\ ServedMetrics.uniqueDays = 2) =>
          /\ response.status # "unlocked"
          /\ "confidence_score" \notin response.keys
          /\ "confidence_level" \notin response.keys

\* C11 witness: a list on two days that meets every requirement but the day
\* one got its Locked payload.
C11_Witness ==
    /\ pc = "done"
    /\ response.status = "locked"
    /\ ServedMetrics.uniqueDays = 2
    /\ ServedRequirements =
          [multiple_days |-> FALSE, multiple_sessions |-> TRUE,
           observed_evidence |-> TRUE, growth_signal |-> TRUE,
           consistency |-> TRUE]
    /\ "confidence_score" \notin response.keys

\* the order in which the messages are pushed, and the requirement each one
\* reports
MessageOrder ==
    <<"days", "sessions", "observed_evidence", "growth_signal", "consistency">>

RequirementOf(kind) ==
    CASE kind = "days" -> "multiple_days"
      [] kind = "sessions" -> "multiple_sessions"
      [] OTHER -> kind

ExpectedMessage(kind, m) ==
    CASE kind = "days" -> [kind |-> kind, value |-> m.uniqueDays, threshold |-> 3]
      [] kind = "sessions" -> [kind |-> kind, value |-> m.sessionCount, threshold |-> 3]
      [] OTHER -> [kind |-> kind, value |-> 0, threshold |-> 0]

ExpectedMissing(r, m) ==
    LET isFalse(kind) == ~r[RequirementOf(kind)]
        kinds == SelectSeq(MessageOrder, isFalse)
    IN  [i \in 1..Len(kinds) |-> ExpectedMessage(kinds[i], m)]

\* C12: getMissingRequirements (server and client) returns exactly one
\* message for each requirement that is false and none for a requirement
\* that is true, in the fixed order days, sessions, observed evidence, growth
\* signal, consistency, the first two quoting the count and the threshold 3;
\* metrics of 2 days, 2 sessions, 2 observed sessions and no error correction
\* give exactly the days, sessions and consistency messages.
C12_OneMessagePerFalseRequirement ==
    fout.fn = "getMissingRequirements" =>
        /\ fout.missing = ExpectedMissing(fout.req, fin.m)
        /\ fout.c_missing = ExpectedMissing(fout.c_req, fin.m)
        /\ Len(fout.missing) =
               Cardinality({f \in RequirementNames : ~fout.req[f]})
        /\ (/\ fin.kind = "metrics"
            /\ fin.m.uniqueDays = 2 /\ fin.m.sessionCount = 2
            /\ fin.m.observedSessionCount = 2
            /\ ~fin.m.hasErrorCorrectionCycles /\ fin.m.hasObservedEvidence) =>
               /\ [i \in 1..Len(fout.missing) |-> fout.missing[i].kind] =
                      <<"days", "sessions", "consistency">>
               /\ [i \in 1..Len(fout.c_missing) |-> fout.c_missing[i].kind] =
                      <<"days", "sessions", "consistency">>

\* C12 witness: metrics of 2 days, 2 sessions and 2 observed sessions without
\* error correction got three messages, the consistency one last.
C12_Witness ==
    /\ fout.fn = "getMissingRequirements"
    /\ fin.kind = "metrics"
    /\ fin.m.uniqueDays = 2
    /\ fin.m.sessionCount = 2
    /\ fin.m.observedSessionCount = 2
    /\ fin.m.hasObservedEvidence
    /\ ~fin.m.hasErrorCorrectionCycles
    /\ Len(fout.missing) = 3
    /\ fout.missing[1] = [kind |-> "days", value |-> 2, threshold |-> 3]
    /\ fout.c_missing[3].kind = "consistency"

\* C13: an evaluation request whose activity list is empty or absent returns
\* a Locked payload with current_progress = {days_count: 0, sessions_count: 0,
\* has_observed_evidence: false} and all five requirements_met false.
C13_EmptyListIsLocked ==
    (pc = "done" /\ ServedActivities = <<>>) =>
        /\ response.http = 200
        /\ response.status = "locked"
        /\ response.current_progress =
               [days_count |-> 0, sessions_count |-> 0,
                has_observed_evidence |-> FALSE]
        /\ \A f \in RequirementNames : ~response.requirements_met[f]

\* C14: GenerateProofCard fails closed: in every reachable state the unlocked
\* view is shown only while the current result satisfies
\* isValidUnlockedResponse (status "unlocked", evidence_summary a non-empty
\* string, confidence_score a number > 0), and createProofCard has only been
\* called with such a result.
C14_ConsumerFailsClosed ==
    /\ View(generator) = "unlocked" =>
          /\ generator.result.status = "unlocked"
          /\ generator.result.evidence_summary.t = "string"
          /\ generator.result.evidence_summary.text # ""
          /\ generator.result.confidence_score.t = "number"
          /\ generator.result.confidence_score.hundredths > 0
    /\ \A c \in generator.created :
          /\ c.result.status = "unlocked"
          /\ c.result.evidence_summary.t = "string"
          /\ c.result.evidence_summary.text # ""
          /\ c.result.confidence_score.t = "number"
          /\ c.result.confidence_score.hundredths > 0

\* C14 witness: a card was saved from one result, and the dialog now holds
\* an "unlocked" result with an empty evidence_summary, shown as locked.
C14_Witness ==
    /\ generator.created # {}
    /\ generator.result.status = "unlocked"
    /\ generator.result.evidence_summary = TStr("")
    /\ View(generator) = "locked"

\* the reply is a JSON object with a non-empty string evidence_summary
ValidShape(r) ==
    /\ r.kind = "http" /\ r.ok /\ r.body = "content" /\ r.parsed = "object"
    /\ r.evidence_summary.t = "string"
    /\ r.evidence_summary.text # ""

\* the texts the handler itself supplies
FallbackSummaries ==
    {"Observed {sessionCount} learning sessions for {skill_name} across {uniqueDays} days.",
     "Observed {sessionCount} learning sessions for {skill_name} across {uniqueDays} days with process evidence."}

FallbackTrends ==
    {<<"Learning process observed">>,
     <<"Learning process observed", "Consistent practice detected">>}

FallbackLimitations ==
    {"Early evidence. Confidence will increase with continued practice.",
     "Early evidence. Confidence will increase with continued practice over time."}

\* C15: when the collaborator's reply is not a JSON object containing a
\* non-empty string evidence_summary, the reply counts as a total failure:
\* the payload is the Unlocked one, its evidence_summary,
\* observed_growth_trends and limitations are all the handler's fixed
\* fallback values, and no field of the reply is used.
C15_ShapeViolationIsTotalFailure ==
    (pc = "done" /\ reply.kind # "none" /\ ~ValidShape(reply)) =>
        /\ response.status = "unlocked"
        /\ response.evidence_summary.t = "string"
        /\ response.evidence_summary.text \in FallbackSummaries
        /\ response.observed_growth_trends \in FallbackTrends
        /\ response.limitations.t = "string"
        /\ response.limitations.text \in FallbackLimitations

\* C16: calculateEvidenceMetrics (server and client) is total: for every
\* activity list, records with a missing, null or wrongly typed field
\* included, it returns an EvidenceMetrics value and never raises.
C16_MetricsNeverRaise ==
    fout.fn = "pipeline" => (~fout.throws /\ ~fout.c_throws)

\* a value is a timestamp: a string that starts with a calendar date
ValidTimestamp(v) ==
    /\ v.t = "string"
    /\ v.s # <<>>
    /\ Head(v.s) \in {"D1", "D2", "D3"}

\* the distinct calendar dates among the rows with a valid timestamp
CalendarDates(rows) ==
    {Head(rows[i].created_at.s) :
        i \in {j \in 1..Len(rows) : ValidTimestamp(rows[j].created_at)}}

\* C17: an activity whose date is absent, or a non-empty string that is no
\* date, does not contribute to uniqueDays: whenever calculateEvidenceMetrics
\* (server and client) returns, uniqueDays is the number of distinct calendar
\* dates among the activities that have a valid timestamp.
C17_UniqueDaysCountValidDates ==
    fout.fn = "pipeline" =>
        /\ ~fout.throws =>
              fout.metrics.uniqueDays = Cardinality(CalendarDates(fin.acts))
        /\ ~fout.c_throws =>
              fout.c_metrics.uniqueDays = Cardinality(CalendarDates(fin.acts))

\* the rows that are tagged observed_in_proof or carry learning signals
ObservedRows(rows) ==
    {i \in 1..Len(rows) :
        \/ rows[i].evidence_source = "observed_in_proof"
        \/ rows[i].learning_signals # NoSignals}

\* C18: whenever calculateEvidenceMetrics (server and client) returns for
\* an activity list, hasObservedEvidence is true iff at least one activity
\* has evidence_source = "observed_in_proof" or a non-null
\* learning_signals, and observedSessionCount is the number of such
\* activities.
C18_ObservedEvidenceIsPermissive ==
    (fout.fn = "pipeline" /\ ~fout.throws /\ ~fout.c_throws) =>
        /\ fout.metrics.hasObservedEvidence <=> ObservedRows(fin.acts) # {}
        /\ fout.metrics.observedSessionCount = Cardinality(ObservedRows(fin.acts))
        /\ fout.c_metrics.hasObservedEvidence <=> ObservedRows(fin.acts) # {}
        /\ fout.c_metrics.observedSessionCount = Cardinality(ObservedRows(fin.acts))

\* C18 witness: of three activities one carries learning signals without
\* the tag, one the tag without signals, one neither: two were counted.
C18_Witness ==
    /\ fout.fn = "pipeline"
    /\ Len(fin.acts) = 3
    /\ \E i \in 1..3 : /\ fin.acts[i].evidence_source = "submitted"
                        /\ fin.acts[i].learning_signals # NoSignals
    /\ \E i \in 1..3 : /\ fin.acts[i].evidence_source = "observed_in_proof"
                        /\ fin.acts[i].learning_signals = NoSignals
    /\ fout.metrics.hasObservedEvidence
    /\ fout.metrics.observedSessionCount = 2
    /\ fout.c_metrics.observedSessionCount = 2

\* C19: every activity ActivityLogger submits has evidence_source =
\* "observed_in_proof" iff its learning_signals is non-null: the pair
\* (evidenceSource, sessionData.signals) is consistent in every reachable
\* state of the logger, across type selection, session finish, session
\* cancel, dialog close, form reset and a failed submit.
C19_EvidenceSourceMatchesSignals ==
    /\ logger.evidenceSource = "observed_in_proof" <=> logger.signals # "undefined"
    /\ \A a \in logger.submitted :
          a.evidence_source = "observed_in_proof" <=> a.learning_signals # "null"

\* C19 witness: an observed coding session and a plain activity have both
\* been submitted, the form has been reset, and a submit is still awaited
\* while a writing session is finished.
C19_Witness ==
    /\ \E a \in logger.submitted : a.learning_signals = "coding"
    /\ \E a \in logger.submitted : a.evidence_source = "submitted"
    /\ logger.adding > 0
    /\ logger.sessionMode = "form"
    /\ logger.signals = "writing"

\* C20: in every LearningSignals snapshot extractSignals produces, coding
\* and writing, the average-interval field (time_between_runs_avg_seconds,
\* time_between_revisions_avg_seconds) is null iff fewer than 2 run or
\* revision timestamps were recorded in the session.
C20_AverageNullIffFewerThanTwo ==
    extractor.finished =>
        /\ extractor.kind = "coding" =>
              (extractor.codingSignals.time_between_runs_avg_seconds.null
                  <=> Len(extractor.coding.runTimestamps) < 2)
        /\ extractor.kind = "writing" =>
              (extractor.writingSignals.time_between_revisions_avg_seconds.null
                  <=> Len(extractor.writing.revisionTimestamps) < 2)

\* C20 witness: a coding session with exactly one run was finished, and its
\* snapshot has a null average.
C20_Witness ==
    /\ extractor.finished
    /\ extractor.kind = "coding"
    /\ Len(extractor.coding.runTimestamps) = 1
    /\ extractor.codingSignals.run_count = 1
    /\ extractor.codingSignals.time_between_runs_avg_seconds.null

\* the double 0.55, and the double 0.5499999999999999 just below it
D_0_55 == FDiv(11, 20)

D_0_5499 == F(295279001, 161061264)

\* C21 as stated: for every activity list for which the evaluation returns
\* Unlocked, confidence_score is 0.6 when some activity reports
\* error_correction_cycles > 0 and 0.55 otherwise, and confidence_level is
\* "early_evidence".
C21_UnlockedScoreAsStated ==
    response.status = "unlocked" =>
        /\ response.confidence_score =
               (IF ServedMetrics.hasErrorCorrectionCycles THEN D_0_6 ELSE D_0_55)
        /\ response.confidence_level = "early_evidence"

\* C21: for every activity list for which the evaluation returns Unlocked,
\* confidence_score is 0.6 when some activity reports
\* error_correction_cycles > 0 and otherwise the double
\* 0.5499999999999999, which is what 0.2 + 0.15 + 0.1 + 0.1 gives in double
\* arithmetic and lies below 0.55; confidence_level is "early_evidence" in
\* both cases, so "emerging" and "developing" never appear in an Unlocked
\* payload; the at-threshold scenario gives 0.6 and "early_evidence".
C21_UnlockedScore ==
    response.status = "unlocked" =>
        /\ response.confidence_score =
               (IF ServedMetrics.hasErrorCorrectionCycles THEN D_0_6 ELSE D_0_5499)
        /\ FLess(D_0_5499, D_0_55)
        /\ response.confidence_level = "early_evidence"
        /\ response.confidence_level \notin {"emerging", "developing"}

\* C21 witness: three activities on three distinct days, one observed with
\* one error-correction cycle and two submitted without signals, were
\* evaluated: Unlocked with 0.6 and "early_evidence".
C21_Witness ==
    /\ response.status = "unlocked"
    /\ Len(ServedActivities) = 3
    /\ ServedMetrics.uniqueDays = 3
    /\ ServedMetrics.observedSessionCount = 1
    /\ Cardinality({i \in 1..3 :
                       /\ ServedActivities[i].evidence_source = "submitted"
                       /\ ServedActivities[i].learning_signals = NoSignals}) = 2
    /\ \E i \in 1..3 : ServedActivities[i].learning_signals = Signals(1)
    /\ response.confidence_score = F(322122547, 53687088)
    /\ response.confidence_level = "early_evidence"


\* the collaborator was called, and what came back is a failure (a rejected
\* fetch, a status that is not ok) or is malformed (a body that is not
\* JSON, no content, content that does not parse to an object)
FailedOrMalformed(r) ==
    /\ r.kind # "none"
    /\ \/ r.kind = "throw"
       \/ ~r.ok
       \/ r.body # "content"
       \/ r.parsed # "object"

\* index.ts 276: the only fetch of the generate_proof_card branch
NoSecondCall == fetchCalls <= 1

\* C22: in one generate_proof_card evaluation the collaborator is called at
\* most once, and after a failed or malformed reply the evaluation completes
\* with the fallback payload without a second call.
C22_OneCallThenFallback ==
    /\ NoSecondCall
    /\ (pc = "done" /\ FailedOrMalformed(reply)) =>
           /\ fetchCalls = 1
           /\ response.status = "unlocked"
           /\ response.evidence_summary.text \in FallbackSummaries


\* C23: a card saved through GenerateProofCard carries the skill of the
\* evaluation request that produced the evidence it saves, under every
\* interleaving of selection, request, response, close/reopen and save.
C23_SavedCardIsForEvaluatedSkill ==
    ~generator.savedForOther


\* C24: logging more evidence never re-locks a skill: once an evaluation of
\* the skill has returned Unlocked, no later evaluation, after any number of
\* further activities logged for the skill and none deleted, returns Locked.
C24_MoreEvidenceNeverRelocks ==
    evaluations.unlockedBefore => evaluations.last # "locked"


\* the dependencies C25 states between the five requirements, and the
\* relations between the metrics it gives as their reason
RequirementsDepend(requirements, metrics) ==
    /\ requirements.growth_signal => requirements.observed_evidence
    /\ requirements.multiple_days => requirements.multiple_sessions
    /\ requirements.consistency => requirements.multiple_sessions
    /\ metrics.uniqueDays <= metrics.sessionCount
    /\ metrics.observedSessionCount <= metrics.sessionCount
    /\ metrics.hasErrorCorrectionCycles => metrics.hasObservedEvidence

\* C25: for the metrics calculateEvidenceMetrics (server and client) derives
\* from an activity list, growth_signal implies observed_evidence,
\* multiple_days implies multiple_sessions and consistency implies
\* multiple_sessions, because uniqueDays <= sessionCount,
\* observedSessionCount <= sessionCount and hasErrorCorrectionCycles implies
\* hasObservedEvidence.
C25_RequirementsAreNotIndependent ==
    (fout.fn = "pipeline" /\ ~fout.throws /\ ~fout.c_throws) =>
        /\ RequirementsDepend(fout.req, fout.metrics)
        /\ RequirementsDepend(fout.c_req, fout.c_metrics)

\* C25 witness: a list of three activities on fewer than three days whose
\* only growth signal is two observed sessions without a correction cycle:
\* growth_signal, observed_evidence, consistency and multiple_sessions are
\* met and multiple_days is not.
C25_Witness ==
    /\ fout.fn = "pipeline" /\ ~fout.throws /\ ~fout.c_throws
    /\ Len(fin.acts) = 3
    /\ ~fout.metrics.hasErrorCorrectionCycles
    /\ fout.req.growth_signal /\ fout.req.observed_evidence
    /\ fout.req.consistency /\ fout.req.multiple_sessions
    /\ ~fout.req.multiple_days
    /\ fout.c_req = fout.req


\* the hundredths a confidence score reaches: the greatest h with
\* h / 100 <= score
Hundredths(score) ==
    CHOOSE h \in 0..100 :
        /\ FLeq(FDiv(h, 100), score)
        /\ h < 100 => FLess(score, FDiv(h + 1, 100))

\* the data GenerateProofCard receives when the edge function returns
\* payload: JSON keeps the type of every property
Received(payload) ==
    Result(payload.status,
           [t |-> IF "evidence_summary" \in payload.keys
                    THEN payload.evidence_summary.t ELSE "undefined",
            text |-> payload.evidence_summary.text],
           IF "confidence_score" \in payload.keys
             THEN Score("number", Hundredths(payload.confidence_score))
           ELSE Score("undefined", 0),
           {"requirements_met", "current_progress", "missing_requirements"}
               \subseteq payload.keys)

\* C26: every payload with status "unlocked" the edge function returns
\* satisfies the client's isValidUnlockedResponse, whatever the collaborator
\* replied, so GenerateProofCard never takes its locked branch for it.
C26_ServerUnlockedIsClientValid ==
    (pc = "done" /\ response.status = "unlocked") =>
        /\ isValidUnlockedResponse(Received(response))
        /\ RenderBranch([GeneratorMounted("Python") EXCEPT
                            !.open = TRUE,
                            !.result = Received(response)]) = "unlocked"


\* C27: once an unshare has succeeded, no token the card had before it
\* verifies the card again: the query of the Verify page matches none of
\* them, and no verifyCard made with one of them shows the card, also after
\* the card is shared again.
C27_RevokedTokenNeverVerifies ==
    /\ \A token \in sharing.revoked : ~Verifies(token)
    /\ sharing.verify.revokedBefore => ~sharing.verify.card

\* C27 witness: the card was shared, unshared and shared again with a
\* fresh token, and verifyCard with the first token showed nothing.
C27_Witness ==
    /\ 1 \in sharing.revoked
    /\ db.proof_card.is_shared
    /\ db.proof_card.share_token = 2
    /\ sharing.verify.token = 1
    /\ sharing.verify.revokedBefore
    /\ ~sharing.verify.card


\* the successful runs whose immediately preceding run had an error
CorrectedRuns(runs) == {i \in 2..Len(runs) : ~runs[i] /\ runs[i - 1]}

\* C28: after any sequence of recordEdit and recordRun calls from
\* createInitialCodingState, errorCorrectionCycles is the number of
\* successful runs whose immediately preceding run, edits in between
\* ignored, had an error; failed runs in a row followed by one success
\* count as one cycle.
C28_CyclesCountCorrectedRuns ==
    extractor.kind = "coding" =>
        extractor.coding.errorCorrectionCycles =
            Cardinality(CorrectedRuns(extractor.runs))

\* C28 witness: two failed runs, then a success, in a session with edits:
\* one cycle.
C28_Witness ==
    /\ extractor.kind = "coding"
    /\ extractor.runs = <<TRUE, TRUE, FALSE>>
    /\ extractor.coding.editCount >= 1
    /\ extractor.coding.errorCount = 2
    /\ extractor.coding.errorCorrectionCycles = 1

\* C29: in every state reachable from createInitialCodingState by
\* recordEdit and recordRun, runCount = errorCount + successfulRuns =
\* length(runTimestamps).
C29_RunCountsAgree ==
    extractor.kind = "coding" =>
        /\ extractor.coding.runCount =
               extractor.coding.errorCount + extractor.coding.successfulRuns
        /\ extractor.coding.runCount = Len(extractor.coding.runTimestamps)

\* C29 witness: edits, two failed runs and a successful one.
C29_Witness ==
    /\ extractor.kind = "coding"
    /\ extractor.coding.editCount = 2
    /\ extractor.coding.runCount = 3
    /\ extractor.coding.errorCount = 2
    /\ extractor.coding.successfulRuns = 1
    /\ Len(extractor.coding.runTimestamps) = 3

\* recordRevision's test for a change that is not meaningful
NotMeaningful(state, newContent) ==
    /\ Abs(countWords(newContent) - countWords(state.lastContent)) < 5
    /\ Abs(newContent.length - state.lastContent.length) < 20

\* C30: in every state reachable from createInitialWritingState by
\* recordRevision and recordAutoSave, revisionCount =
\* length(wordCountChanges) = length(revisionTimestamps), structuralChanges
\* and paragraphRewrites are at most revisionCount, and a revision that is
\* not meaningful (word difference < 5 and length difference < 20) returns
\* the state unchanged.
C30_RevisionCountsAgree ==
    extractor.kind = "writing" =>
        /\ extractor.writing.revisionCount = Len(extractor.writing.wordCountChanges)
        /\ extractor.writing.revisionCount = Len(extractor.writing.revisionTimestamps)
        /\ extractor.writing.structuralChanges <= extractor.writing.revisionCount
        /\ extractor.writing.paragraphRewrites <= extractor.writing.revisionCount
        /\ \A doc \in Documents, now \in TimeValues :
              NotMeaningful(extractor.writing, doc.text) =>
                  recordRevision(extractor.writing, doc.text, doc.html, now)
                      = extractor.writing

\* C30 witness: two revisions were recorded, one a structural change and one
\* a paragraph rewrite, auto-saves were made, and the editor can hold a
\* different text two words and ten characters away, which is rejected.
C30_Witness ==
    /\ extractor.kind = "writing"
    /\ extractor.writing.revisionCount = 2
    /\ extractor.writing.structuralChanges >= 1
    /\ extractor.writing.paragraphRewrites >= 1
    /\ extractor.writing.autoSaveCount >= 1
    /\ \E doc \in Documents :
          /\ doc.text # extractor.writing.lastContent
          /\ NotMeaningful(extractor.writing, doc.text)
          /\ recordRevision(extractor.writing, doc.text, doc.html, 3)
                 = extractor.writing

====
